---------------------------- MODULE Spec2Model ----------------------------
(***************************************************************************)
(* A model of torchtt.TT (src/torchtt/torchtt.py): the tensor-train class, *)
(* its constructor, its arithmetic operators and its in-place mode         *)
(* reduction.                                                              *)
(*                                                                         *)
(* A torch tensor is a handle [st, shape, pos] onto a storage: pos maps    *)
(* the row-major positions of the tensor to positions of the storage, so a *)
(* view (permute, basic indexing, reshape of a viewable tensor) shares its *)
(* storage with its base and an in-place operation writes through it.      *)
(* A python list of cores is an object of its own (lists), a TT object     *)
(* holds the identity of its list of cores.  Entries are integers, which   *)
(* float64 represents exactly in the ranges explored here.                 *)
(***************************************************************************)
EXTENDS Integers, Sequences, FiniteSets, TLC

VARIABLES store, lists, objs, last

vars == <<store, lists, objs, last>>

(***************************************************************************)
(* Bounds of the exploration.                                              *)
(***************************************************************************)
\* longest list of cores handed to the constructor in SpecCtor
MaxCores == 2

\* the extent of a dimension and the number of dimensions of a constructor input
CtorDims == {1, 2}
CtorNdims == {0, 1, 2, 3, 4}

(***************************************************************************)
(* Dense arrays: [shape, data], data in row-major order.                   *)
(***************************************************************************)
RECURSIVE Prod(_)
Prod(s) == IF Len(s) = 0 THEN 1 ELSE Head(s) * Prod(Tail(s))

Stride(shape, k) == Prod(SubSeq(shape, k + 1, Len(shape)))

RECURSIVE FlatFrom(_, _, _)
FlatFrom(shape, idx, k) ==
    IF k > Len(shape) THEN 0
    ELSE (idx[k] - 1) * Stride(shape, k) + FlatFrom(shape, idx, k + 1)

\* position (from 1) of the entry idx (entries from 1) of an array of shape `shape`
Flat(shape, idx) == 1 + FlatFrom(shape, idx, 1)

\* the index of the entry at row-major position p
Unflat(shape, p) ==
    [k \in 1..Len(shape) |-> (((p - 1) \div Stride(shape, k)) % shape[k]) + 1]

TAt(t, idx) == t.data[Flat(t.shape, idx)]

TMake(shape, F(_)) ==
    [shape |-> shape, data |-> [p \in 1..Prod(shape) |-> F(Unflat(shape, p))]]

RECURSIVE SeqsOf(_, _)
SeqsOf(S, n) ==
    IF n = 0 THEN {<<>>}
    ELSE {Append(s, x) : s \in SeqsOf(S, n - 1), x \in S}

SeqsUpTo(S, n) == UNION {SeqsOf(S, k) : k \in 0..n}

(***************************************************************************)
(* The heap: storages, tensor handles, lists.                              *)
(***************************************************************************)
Ident(n) == [p \in 1..n |-> p]

\* a freshly allocated tensor of the given shape on storage number st
FreshHandle(st, shape) == [st |-> st, shape |-> shape, pos |-> Ident(Prod(shape))]

\* the dense value a handle shows in the storages s
ValueOf(s, h) ==
    [shape |-> h.shape, data |-> [p \in 1..Len(h.pos) |-> s[h.st][h.pos[p]]]]

NoTensor == [shape |-> <<0>>, data |-> <<>>]

\* a call: the operation, the objects it was given, its scalar argument, its
\* index argument, the object it returned (0: none), the exception it
\* raised, a dense result
NoCall ==
    [op |-> "none", args |-> <<>>, c |-> 0, index |-> <<>>, res |-> 0,
     err |-> "none", ret |-> NoTensor]

Call(op, args, c, res, err) ==
    [op |-> op, args |-> args, c |-> c, index |-> <<>>, res |-> res, err |-> err,
     ret |-> NoTensor]

\* a call with an index argument
CallAt(op, args, index, res, err) == [Call(op, args, 0, res, err) EXCEPT !.index = index]

(***************************************************************************)
(* TT.__init__                                                             *)
(***************************************************************************)
Failed(e) == [err |-> e, N |-> <<>>, M |-> <<>>, R |-> <<>>, is_ttm |-> FALSE]

\* the check after the loop without its test of the last rank
InitFinish_NoLastRank(d, N, M, R) ==
    IF Len(N) # d \/ Len(R) # d + 1 \/ R[1] # 1
          \/ (Len(M) # 0 /\ Len(M) # Len(N))
    THEN Failed("InvalidArguments")
    ELSE [err |-> "none", N |-> N, M |-> IF Len(M) = Len(N) THEN M ELSE <<>>,
          R |-> R, is_ttm |-> Len(M) = Len(N)]

\* the check after the loop and the attributes it stores
InitFinish(d, N, M, R) ==
    IF Len(N) # d \/ Len(R) # d + 1 \/ R[1] # 1 \/ R[Len(R)] # 1
          \/ (Len(M) # 0 /\ Len(M) # Len(N))
    THEN Failed("InvalidArguments")
    ELSE [err |-> "none", N |-> N, M |-> IF Len(M) = Len(N) THEN M ELSE <<>>,
          R |-> R, is_ttm |-> Len(M) = Len(N)]

RECURSIVE InitLoop(_, _, _, _, _)
InitLoop(shapes, i, N, M, R) ==
    IF i > Len(shapes) THEN InitFinish(Len(shapes), N, M, R)
    ELSE LET s == shapes[i] IN
         IF Len(s) = 0 THEN Failed("IndexError")
         ELSE IF s[1] # R[Len(R)] THEN Failed("RankMismatch")
         ELSE IF Len(s) = 3
              THEN InitLoop(shapes, i + 1, Append(N, s[2]), M, Append(R, s[3]))
         ELSE IF Len(s) = 4
              THEN InitLoop(shapes, i + 1, Append(N, s[3]), Append(M, s[2]),
                            Append(R, s[4]))
         ELSE Failed("InvalidArguments")

\* the branch of the constructor for a list of cores, on the shapes of the cores
InitFromList(shapes) ==
    IF Len(shapes) = 0 THEN Failed("IndexError")
    ELSE IF Len(shapes[1]) = 0 THEN Failed("IndexError")
    ELSE InitLoop(shapes, 1, <<>>, <<>>, <<shapes[1][1]>>)

ShapeOf(is_ttm, M, N) ==
    IF is_ttm THEN [i \in 1..(IF Len(M) < Len(N) THEN Len(M) ELSE Len(N))
                       |-> <<M[i], N[i]>>]
    ELSE N

\* the object TT(source) stores for the list object l, given a passed check r
ObjectOf(l, r) ==
    [cores |-> l, N |-> r.N, M |-> r.M, R |-> r.R, is_ttm |-> r.is_ttm,
     has_M |-> r.is_ttm, has_shape |-> TRUE,
     shape |-> ShapeOf(r.is_ttm, r.M, r.N)]

ShapesOfList(l) == [i \in 1..Len(lists[l]) |-> lists[l][i].shape]

\* TT(source) for a list of cores: the list itself becomes self.cores
TT_init(l) ==
    /\ l \in 1..Len(lists)
    /\ LET r == InitFromList(ShapesOfList(l)) IN
       IF r.err # "none"
       THEN /\ last' = Call("TT", <<l>>, 0, 0, r.err)
            /\ UNCHANGED <<store, lists, objs>>
       ELSE /\ objs' = Append(objs, ObjectOf(l, r))
            /\ last' = Call("TT", <<l>>, 0, Len(objs) + 1, "none")
            /\ UNCHANGED <<store, lists>>

\* TT(None): the empty tensor
EmptyObject ==
    [cores |-> 0, N |-> <<>>, M |-> <<>>, R |-> <<1, 1>>, is_ttm |-> FALSE,
     has_M |-> TRUE, has_shape |-> FALSE, shape |-> <<>>]

\* a new empty list object, and the object holding it
WithEmptyList(o) == [o EXCEPT !.cores = Len(lists) + 1]

TT_None ==
    /\ lists' = Append(lists, <<>>)
    /\ objs' = Append(objs, WithEmptyList(EmptyObject))
    /\ last' = Call("TT(None)", <<>>, 0, Len(objs) + 1, "none")
    /\ UNCHANGED store

emptyTT ==
    /\ lists' = Append(lists, <<>>)
    /\ objs' = Append(objs, [WithEmptyList(EmptyObject) EXCEPT
                                !.is_ttm = FALSE, !.N = <<>>, !.R = <<>>])
    /\ last' = Call("emptyTT", <<>>, 0, Len(objs) + 1, "none")
    /\ UNCHANGED store

emptyTTM ==
    /\ lists' = Append(lists, <<>>)
    /\ objs' = Append(objs, [WithEmptyList(EmptyObject) EXCEPT
                                !.is_ttm = TRUE, !.N = <<>>, !.R = <<>>])
    /\ last' = Call("emptyTTM", <<>>, 0, Len(objs) + 1, "none")
    /\ UNCHANGED store

\* ones([]): the shape is a list of length 0
ones_empty ==
    /\ lists' = Append(lists, <<>>)
    /\ objs' = Append(objs, WithEmptyList(EmptyObject))
    /\ last' = Call("ones([])", <<>>, 0, Len(objs) + 1, "none")
    /\ UNCHANGED store

(***************************************************************************)
(* Dense operations of torch the operators are written with.               *)
(***************************************************************************)
RECURSIVE SumSeq(_)
SumSeq(s) == IF Len(s) = 0 THEN 0 ELSE Head(s) + SumSeq(Tail(s))

\* torch.nn.functional.pad with zeros: p lists (before, after) amounts from
\* the last dimension backwards
PadLo(nd, p, k) == p[2 * (nd - k) + 1]

PadHi(nd, p, k) == p[2 * (nd - k) + 2]

PadShape(shape, p) ==
    [k \in 1..Len(shape) |->
        PadLo(Len(shape), p, k) + shape[k] + PadHi(Len(shape), p, k)]

Pad(t, p) ==
    LET nd == Len(t.shape) IN
    TMake(PadShape(t.shape, p),
          LAMBDA idx :
             IF \A k \in 1..nd : /\ idx[k] > PadLo(nd, p, k)
                                 /\ idx[k] <= PadLo(nd, p, k) + t.shape[k]
             THEN TAt(t, [k \in 1..nd |-> idx[k] - PadLo(nd, p, k)])
             ELSE 0)

\* broadcasting of an elementwise operation: shapes are aligned at the last
\* dimension, a dimension of extent 1 is stretched
Aligned(shape, n) ==
    [k \in 1..n |-> IF k <= n - Len(shape) THEN 1 ELSE shape[k - (n - Len(shape))]]

Max(a, b) == IF a >= b THEN a ELSE b

Broadcastable(a, b) ==
    LET n == Max(Len(a), Len(b)) IN
    \A k \in 1..n :
        \/ Aligned(a, n)[k] = Aligned(b, n)[k]
        \/ Aligned(a, n)[k] = 1
        \/ Aligned(b, n)[k] = 1

BroadcastShape(a, b) ==
    LET n == Max(Len(a), Len(b)) IN
    [k \in 1..n |-> IF Aligned(a, n)[k] = 1 THEN Aligned(b, n)[k]
                    ELSE Aligned(a, n)[k]]

\* the entry of t that the entry idx of the broadcast result reads
BroadcastAt(t, n, idx) ==
    TAt(t, [k \in 1..Len(t.shape) |->
               IF t.shape[k] = 1 THEN 1 ELSE idx[k + (n - Len(t.shape))]])

TAdd(a, b) ==
    LET shape == BroadcastShape(a.shape, b.shape) IN
    TMake(shape, LAMBDA idx : BroadcastAt(a, Len(shape), idx)
                              + BroadcastAt(b, Len(shape), idx))

TScale(t, c) == [shape |-> t.shape, data |-> [p \in 1..Len(t.data) |-> c * t.data[p]]]

TNeg(t) == TScale(t, -1)

TFull(shape, c) == [shape |-> shape, data |-> [p \in 1..Prod(shape) |-> c]]

TReshape(t, shape) == [shape |-> shape, data |-> t.data]

\* tn.permute: dimension k of the result is dimension perm[k] of t
TPermute(t, perm) ==
    TMake([k \in 1..Len(perm) |-> t.shape[perm[k]]],
          LAMBDA idx :
             TAt(t, [j \in 1..Len(perm) |->
                        idx[CHOOSE k \in 1..Len(perm) : perm[k] = j]]))

\* tn.squeeze: the dimensions of extent 1 are dropped
RECURSIVE Squeezed(_)
Squeezed(shape) ==
    IF Len(shape) = 0 THEN <<>>
    ELSE IF Head(shape) = 1 THEN Squeezed(Tail(shape))
    ELSE <<Head(shape)>> \o Squeezed(Tail(shape))

TSqueeze(t) == TReshape(t, Squeezed(t.shape))

(***************************************************************************)
(* What an object shows: its attributes and the entries of its cores.      *)
(***************************************************************************)
CoresIn(s, ls, o) == [i \in 1..Len(ls[o.cores]) |-> ValueOf(s, ls[o.cores][i])]

ViewIn(s, ls, o) ==
    [cores |-> CoresIn(s, ls, o), N |-> o.N, M |-> o.M, R |-> o.R,
     is_ttm |-> o.is_ttm]

View(i) == ViewIn(store, lists, objs[i])

(***************************************************************************)
(* TT.full                                                                 *)
(***************************************************************************)
Front(s) == SubSeq(s, 1, Len(s) - 1)

\* self.cores[0][0,...]: the first core without its leading rank
DropLeading(core) ==
    TMake(Tail(core.shape), LAMBDA idx : TAt(core, <<1>> \o idx))

\* core[...,0]: a core without its trailing rank
DropTrailing(core) ==
    TMake(Front(core.shape), LAMBDA idx : TAt(core, idx \o <<1>>))

\* einsum('...i,i<modes>->...<modes>'): the running array times the next
\* core (of 2, 3 or 4 dimensions), summed over the shared rank
Contract(acc, core) ==
    LET k == Len(acc.shape) - 1
        r == core.shape[1]
    IN TMake(SubSeq(acc.shape, 1, k) \o Tail(core.shape),
             LAMBDA idx :
                SumSeq([a \in 1..r |->
                           TAt(acc, SubSeq(idx, 1, k) \o <<a>>)
                           * TAt(core, <<a>> \o SubSeq(idx, k + 1, Len(idx)))]))

RECURSIVE FullSweep(_, _, _)
FullSweep(acc, cores, i) ==
    IF i > Len(cores) - 1 THEN acc
    ELSE FullSweep(Contract(acc, cores[i]), cores, i + 1)

\* (0,2,4,...,1,3,5,...) from 1: the row modes first, the column modes after
RowsThenCols(d) == [k \in 1..(2 * d) |-> IF k <= d THEN 2 * k - 1 ELSE 2 * (k - d)]

\* full() of an object with at least one core
full(A) ==
    LET d == Len(A.cores)
        swept == FullSweep(DropLeading(A.cores[1]), A.cores, 2)
    IN IF A.is_ttm
       THEN IF Len(A.N) # 1
            THEN TPermute(Contract(swept, DropTrailing(A.cores[d])),
                          RowsThenCols(Len(A.N)))
            ELSE DropTrailing(swept)
       ELSE IF Len(A.N) # 1
            THEN Contract(swept, DropTrailing(A.cores[d]))
            ELSE TSqueeze(swept)

(***************************************************************************)
(* TT.__add__ and TT.__sub__                                               *)
(***************************************************************************)
\* what an operator computes: an error, or the cores it hands to TT(...)
Raise(e) == [err |-> e, cores |-> <<>>]

Return(cs) == [err |-> "none", cores |-> cs]

\* pad1: the room for the other operand's ranks after this operand's core
Pad1(A, ro, ro1, k) ==
    LET d == Len(A.N) IN
    IF A.is_ttm
    THEN <<0, IF k = d THEN 0 ELSE ro1, 0, 0, 0, 0, 0, IF k = 1 THEN 0 ELSE ro>>
    ELSE <<0, IF k = d THEN 0 ELSE ro1, 0, 0, 0, IF k = 1 THEN 0 ELSE ro>>

\* pad2 taking the room from the rank on the wrong side of the core
Pad2_WrongRank(A, k) ==
    LET d == Len(A.N) IN
    IF A.is_ttm
    THEN <<IF k = d THEN 0 ELSE A.R[k], 0, 0, 0, 0, 0,
           IF k = 1 THEN 0 ELSE A.R[k + 1], 0>>
    ELSE <<IF k = d THEN 0 ELSE A.R[k], 0, 0, 0,
           IF k = 1 THEN 0 ELSE A.R[k + 1], 0>>

\* pad2: the room for this operand's ranks before the other operand's core
Pad2(A, k) ==
    LET d == Len(A.N) IN
    IF A.is_ttm
    THEN <<IF k = d THEN 0 ELSE A.R[k + 1], 0, 0, 0, 0, 0,
           IF k = 1 THEN 0 ELSE A.R[k], 0>>
    ELSE <<IF k = d THEN 0 ELSE A.R[k + 1], 0, 0, 0,
           IF k = 1 THEN 0 ELSE A.R[k], 0>>

\* the scalar as a core: ones([1,1,1]) * (other if i == 0 else 1)
ScalarCore(A, c, k) ==
    TFull(IF A.is_ttm THEN <<1, 1, 1, 1>> ELSE <<1, 1, 1>>, IF k = 1 THEN c ELSE 1)

\* the second summand with "-" negating every core instead of the first
Summand_AllNegated(A, kind, B, c, neg, k) ==
    IF kind = "scalar" THEN ScalarCore(A, IF neg THEN -c ELSE c, k)
    ELSE IF neg THEN TNeg(B.cores[k]) ELSE B.cores[k]

\* the second summand of core k: other is a scalar c (kind "scalar") or the
\* object B (kind "tt"); "-" negates its first core
Summand(A, kind, B, c, neg, k) ==
    IF kind = "scalar" THEN ScalarCore(A, IF neg THEN -c ELSE c, k)
    ELSE IF neg /\ k = 1 THEN TNeg(B.cores[k]) ELSE B.cores[k]

OtherRank(kind, B, k) == IF kind = "scalar" THEN 1 ELSE B.R[k]

\* the list accesses of iteration k that fail
MissingAt(A, kind, B, k) ==
    LET d == Len(A.N) IN
    \/ kind = "tt" /\ k # d /\ k + 1 > Len(B.R)
    \/ kind = "tt" /\ k # 1 /\ k > Len(B.R)
    \/ k # d /\ k + 1 > Len(A.R)
    \/ k # 1 /\ k > Len(A.R)
    \/ k > Len(A.cores)
    \/ kind = "tt" /\ k > Len(B.cores)

PaddedSelf(A, kind, B, k) ==
    Pad(A.cores[k],
        Pad1(A, IF k = 1 THEN 0 ELSE OtherRank(kind, B, k),
                IF k = Len(A.N) THEN 0 ELSE OtherRank(kind, B, k + 1), k))

PaddedOther(A, kind, B, c, neg, k) == Pad(Summand(A, kind, B, c, neg, k), Pad2(A, k))

RECURSIVE AddLoop(_, _, _, _, _, _, _)
AddLoop(A, kind, B, c, neg, k, acc) ==
    IF k > Len(A.N) THEN Return(acc)
    ELSE IF MissingAt(A, kind, B, k) THEN Raise("IndexError")
    ELSE LET a == PaddedSelf(A, kind, B, k)
             b == PaddedOther(A, kind, B, c, neg, k)
         IN IF ~Broadcastable(a.shape, b.shape) THEN Raise("RuntimeError")
            ELSE AddLoop(A, kind, B, c, neg, k + 1, Append(acc, TAdd(a, b)))

\* the shape test of + and -: it compares the operand with itself
DimensionMismatch(A, B) ==
    IF A.is_ttm THEN A.M # A.M \/ A.N # A.N ELSE A.N # A.N

\* self + other and self - other for a TT other
AddTT(A, B, neg) ==
    IF A.is_ttm # B.is_ttm THEN Raise("IncompatibleTypes")
    ELSE IF DimensionMismatch(A, B) THEN Raise("ShapeMismatch")
    ELSE AddLoop(A, "tt", B, 0, neg, 1, <<>>)

\* self + c and self - c for an int or float c
AddScalar(A, c, neg) == AddLoop(A, "scalar", A, c, neg, 1, <<>>)

\* T = self - c; T.cores[0] = -T.cores[0]
RSubScalar(A, c) ==
    LET T == AddScalar(A, c, TRUE) IN
    IF T.err # "none" THEN T
    ELSE Return([k \in 1..Len(T.cores) |->
                    IF k = 1 THEN TNeg(T.cores[k]) ELSE T.cores[k]])

\* cores_new = [c.clone() for c in self.cores]; cores_new[0] = -cores_new[0]
Negated(A) ==
    IF Len(A.cores) = 0 THEN Raise("IndexError")
    ELSE Return([k \in 1..Len(A.cores) |->
                    IF k = 1 THEN TNeg(A.cores[k]) ELSE A.cores[k]])

(***************************************************************************)
(* The operators as calls: result = TT(cores). A core handed over is a new  *)
(* tensor, given by its value, or a tensor that exists, given by its       *)
(* handle.                                                                 *)
(***************************************************************************)
IsHandle(x) == "st" \in DOMAIN x

NewTensors(cs) == SelectSeq(cs, LAMBDA x : ~IsHandle(x))

NewStore(cs) ==
    store \o [k \in 1..Len(NewTensors(cs)) |-> NewTensors(cs)[k].data]

NewHandles(cs) ==
    [k \in 1..Len(cs) |->
        IF IsHandle(cs[k]) THEN cs[k]
        ELSE FreshHandle(Len(store) + Len(NewTensors(SubSeq(cs, 1, k))), cs[k].shape)]

\* the object i as an operand: its attributes, the values and the handles of
\* its cores
Operand(i) ==
    [cores |-> CoresIn(store, lists, objs[i]), h |-> lists[objs[i].cores],
     N |-> objs[i].N, M |-> objs[i].M, R |-> objs[i].R, is_ttm |-> objs[i].is_ttm]

\* the call ends with the exception of the operator or of TT(cores), or
\* returns the new object
Produce(op, args, c, out) ==
    LET r == IF out.err # "none" THEN Failed(out.err)
             ELSE InitFromList([k \in 1..Len(out.cores) |-> out.cores[k].shape])
    IN IF r.err # "none"
       THEN /\ last' = Call(op, args, c, 0, r.err)
            /\ UNCHANGED <<store, lists, objs>>
       ELSE /\ store' = NewStore(out.cores)
            /\ lists' = Append(lists, NewHandles(out.cores))
            /\ objs' = Append(objs, ObjectOf(Len(lists) + 1, r))
            /\ last' = Call(op, args, c, Len(objs) + 1, "none")

TT_add(i, j) == Produce("add", <<i, j>>, 0, AddTT(View(i), View(j), FALSE))

TT_sub(i, j) == Produce("sub", <<i, j>>, 0, AddTT(View(i), View(j), TRUE))

TT_add_scalar(i, c) == Produce("add_scalar", <<i>>, c, AddScalar(View(i), c, FALSE))

\* c + x is x.__add__(c)
TT_radd(i, c) == Produce("radd", <<i>>, c, AddScalar(View(i), c, FALSE))

TT_sub_scalar(i, c) == Produce("sub_scalar", <<i>>, c, AddScalar(View(i), c, TRUE))

TT_rsub(i, c) == Produce("rsub", <<i>>, c, RSubScalar(View(i), c))

TT_neg(i) == Produce("neg", <<i>>, 0, Negated(View(i)))

(***************************************************************************)
(* torch.einsum of two operands, torch.sum over the modes of a core.       *)
(***************************************************************************)
Range(s) == {s[k] : k \in 1..Len(s)}

PosOf(s, x) == CHOOSE k \in 1..Len(s) : s[k] = x

\* the extents of the dimensions of t that carry the subscript l
ExtentsOf(subs, t, l) == {t.shape[k] : k \in {j \in 1..Len(subs) : subs[j] = l}}

Extent(sa, a, sb, b, l) ==
    LET E == ExtentsOf(sa, a, l) \cup ExtentsOf(sb, b, l)
    IN CHOOSE m \in E : \A e \in E : e <= m

\* the operands have the dimensions the subscripts name, and the extents of
\* one subscript are equal or 1 (a dimension of extent 1 is broadcast)
EinsumFits(sa, a, sb, b) ==
    /\ Len(sa) = Len(a.shape)
    /\ Len(sb) = Len(b.shape)
    /\ \A l \in Range(sa) \cup Range(sb) :
          \A e \in ExtentsOf(sa, a, l) \cup ExtentsOf(sb, b, l) :
             e = Extent(sa, a, sb, b, l) \/ e = 1

\* the subscripts that are summed: those that the output does not name
Summed(sa, sb, so) ==
    SelectSeq(sa, LAMBDA l : l \notin Range(so))
       \o SelectSeq(sb, LAMBDA l : l \notin Range(so) /\ l \notin Range(sa))

EinsumRead(t, subs, so, oidx, sc, cidx) ==
    TAt(t, [k \in 1..Len(subs) |->
               IF t.shape[k] = 1 THEN 1
               ELSE IF subs[k] \in Range(so) THEN oidx[PosOf(so, subs[k])]
               ELSE cidx[PosOf(sc, subs[k])]])

\* tn.einsum('sa,sb->so', a, b), the subscripts given as sequences of letters
Einsum(sa, sb, so, a, b) ==
    LET sc == Summed(sa, sb, so)
        cshape == [k \in 1..Len(sc) |-> Extent(sa, a, sb, b, sc[k])]
    IN TMake([k \in 1..Len(so) |-> Extent(sa, a, sb, b, so[k])],
             LAMBDA oidx :
                SumSeq([p \in 1..Prod(cshape) |->
                           EinsumRead(a, sa, so, oidx, sc, Unflat(cshape, p))
                           * EinsumRead(b, sb, so, oidx, sc, Unflat(cshape, p))]))

\* a core that could not be computed: the exception of the torch call
Bad(e) == [bad |-> e]

IsBad(x) == "bad" \in DOMAIN x

\* tn.reshape(tn.einsum(...), shape)
EinsumTo(sa, sb, so, a, b, shape) ==
    IF ~EinsumFits(sa, a, sb, b) THEN Bad("RuntimeError")
    ELSE IF Prod([k \in 1..Len(so) |-> Extent(sa, a, sb, b, so[k])]) # Prod(shape)
         THEN Bad("RuntimeError")
         ELSE TReshape(Einsum(sa, sb, so, a, b), shape)

\* tn.einsum(...) alone
EinsumOf(sa, sb, so, a, b) ==
    IF ~EinsumFits(sa, a, sb, b) THEN Bad("RuntimeError")
    ELSE Einsum(sa, sb, so, a, b)

\* the cores of a loop: the first exception, or all of them
FirstBad(cs) ==
    CHOOSE k \in 1..Len(cs) : IsBad(cs[k]) /\ \A j \in 1..(k - 1) : ~IsBad(cs[j])

Collect(cs) ==
    IF \E k \in 1..Len(cs) : IsBad(cs[k]) THEN Raise(cs[FirstBad(cs)].bad)
    ELSE Return(cs)

\* tn.sum(core, [1] or [1,2], keepdim = True): the modes are summed, their
\* dimensions stay with extent 1
SumModes(core) ==
    LET n == Len(core.shape)
        modes == SubSeq(core.shape, 2, n - 1)
    IN TMake([k \in 1..n |-> IF k = 1 \/ k = n THEN core.shape[k] ELSE 1],
             LAMBDA idx :
                SumSeq([p \in 1..Prod(modes) |->
                           TAt(core, <<idx[1]>> \o Unflat(modes, p) \o <<idx[n]>>)]))

(***************************************************************************)
(* TT.__mul__, TT.__matmul__, kron, TT.__pos__, TT.mprod                   *)
(***************************************************************************)
\* core k of self * other: the einsum of the two cores, reshaped with the
\* ranks and mode sizes stored in self
MulCore(A, B, k) ==
    IF A.is_ttm
    THEN EinsumTo(<<"a", "i", "j", "b">>, <<"m", "i", "j", "n">>,
                  <<"a", "m", "i", "j", "b", "n">>, A.cores[k], B.cores[k],
                  <<A.R[k] * B.R[k], A.M[k], A.N[k], A.R[k + 1] * B.R[k + 1]>>)
    ELSE EinsumTo(<<"a", "i", "b">>, <<"m", "i", "n">>,
                  <<"a", "m", "i", "b", "n">>, A.cores[k], B.cores[k],
                  <<A.R[k] * B.R[k], A.N[k], A.R[k + 1] * B.R[k + 1]>>)

\* self * other for a TT other
Mul(A, B) ==
    IF A.is_ttm /\ B.is_ttm
    THEN IF A.N # B.N \/ A.M # B.M THEN Raise("ShapeMismatch")
         ELSE Collect([k \in 1..Len(A.cores) |-> MulCore(A, B, k)])
    ELSE IF ~A.is_ttm /\ ~B.is_ttm
    THEN IF A.N # B.N THEN Raise("ShapeMismatch")
         ELSE Collect([k \in 1..Len(A.cores) |-> MulCore(A, B, k)])
    ELSE Raise("IncompatibleTypes")

\* self * c for an int or float c: cores_new[0] *= other on copies
MulScalar(A, c) ==
    IF Len(A.cores) = 0 THEN Raise("IndexError")
    ELSE Return([k \in 1..Len(A.cores) |->
                    IF k = 1 THEN TScale(A.cores[k], c) ELSE A.cores[k]])

\* core k of self @ other, by the kinds of the operands
MatmulCore(A, B, k) ==
    LET a == A.cores[k]
        b == B.cores[k]
    IN IF A.is_ttm /\ ~B.is_ttm
       THEN EinsumTo(<<"i", "j", "k", "l">>, <<"m", "k", "p">>,
                     <<"i", "m", "j", "l", "p">>, a, b,
                     <<a.shape[1] * b.shape[1], a.shape[2], a.shape[4] * b.shape[3]>>)
       ELSE IF A.is_ttm /\ B.is_ttm
       THEN EinsumTo(<<"i", "j", "k", "l">>, <<"m", "k", "n", "p">>,
                     <<"i", "m", "j", "n", "l", "p">>, a, b,
                     <<a.shape[1] * b.shape[1], a.shape[2], b.shape[3],
                       a.shape[4] * b.shape[4]>>)
       ELSE EinsumTo(<<"m", "k", "p">>, <<"i", "k", "j", "l">>,
                     <<"i", "m", "j", "l", "p">>, a, b,
                     <<a.shape[1] * b.shape[1], b.shape[3], a.shape[3] * b.shape[4]>>)

\* self @ other for a TT other
Matmul(A, B) ==
    IF A.is_ttm /\ ~B.is_ttm
    THEN IF A.N # B.N THEN Raise("ShapeMismatch")
         ELSE Collect([k \in 1..Len(A.cores) |-> MatmulCore(A, B, k)])
    ELSE IF A.is_ttm /\ B.is_ttm
    THEN IF A.N # B.M THEN Raise("ShapeMismatch")
         ELSE Collect([k \in 1..Len(A.cores) |-> MatmulCore(A, B, k)])
    ELSE IF ~A.is_ttm /\ B.is_ttm
    THEN IF A.N # B.M THEN Raise("ShapeMismatch")
         ELSE Collect([k \in 1..Len(A.cores) |-> MatmulCore(A, B, k)])
    ELSE Raise("InvalidArguments")

\* kron(first, second) and first ** second for two TT objects
Kron(A, B) ==
    IF A.is_ttm # B.is_ttm THEN Raise("IncompatibleTypes")
    ELSE Return(A.cores \o B.cores)

\* +self: [c.clone() for c in self.cores]
Cloned(A) == Return(A.cores)

\* self.mprod([F], [mode]): the core at `mode` (from 0) times the factor
\* matrix F along its (column) mode
MprodCore(A, F, k) ==
    IF A.is_ttm
    THEN EinsumOf(<<"i", "m", "j", "k">>, <<"l", "j">>, <<"i", "m", "l", "k">>,
                  A.cores[k], F)
    ELSE EinsumOf(<<"i", "j", "k">>, <<"l", "j">>, <<"i", "l", "k">>, A.cores[k], F)

Mprod(A, F, mode) ==
    IF mode + 1 > Len(A.cores) THEN Raise("IndexError")
    ELSE Collect([k \in 1..Len(A.cores) |->
                     IF k = mode + 1 THEN MprodCore(A, F, k) ELSE A.cores[k]])

TT_mul(i, j) == Produce("mul", <<i, j>>, 0, Mul(Operand(i), Operand(j)))

TT_mul_scalar(i, c) == Produce("mul_scalar", <<i>>, c, MulScalar(Operand(i), c))

TT_matmul(i, j) == Produce("matmul", <<i, j>>, 0, Matmul(Operand(i), Operand(j)))

TT_kron(i, j) == Produce("kron", <<i, j>>, 0, Kron(Operand(i), Operand(j)))

TT_pos(i) == Produce("pos", <<i>>, 0, Cloned(Operand(i)))

TT_mprod(i, F, mode) == Produce("mprod", <<i>>, mode, Mprod(Operand(i), F, mode))

\* self.mprod(F, mode) with a tensor F: isinstance(F, tn.tensor) is a
\* TypeError, tn.tensor being a function
TT_mprod_tensor(i, F, mode) == Produce("mprod_tensor", <<i>>, mode, Raise("TypeError"))

(***************************************************************************)
(* kron with None, and TT / TT up to the call of the solver                *)
(***************************************************************************)
\* kron(None, x), kron(x, None): [c.clone() for c in x.cores]
KronNone(A) == Return(A.cores)

\* kron(None, x); also None ** x, which is x.__rpow__(None) = kron(x, None)
TT_kron_left_none(j) == Produce("kron_left_none", <<j>>, 0, KronNone(Operand(j)))

\* kron(x, None) and x ** None
TT_kron_right_none(i) == Produce("kron_right_none", <<i>>, 0, KronNone(Operand(i)))

\* kron(None, None)
TT_kron_none_none ==
    /\ last' = Call("kron_none_none", <<>>, 0, 0, "InvalidArguments")
    /\ UNCHANGED <<store, lists, objs>>

\* the tests in the other order: the mode sizes first, the kinds second
DivChecks_ShapeFirst(A, B) ==
    IF A.N # B.N \/ (A.is_ttm /\ A.M # B.M) THEN "ShapeMismatch"
    ELSE IF A.is_ttm # B.is_ttm THEN "IncompatibleTypes"
    ELSE "none"

\* self / other for a TT other: the tests made before amen_divide is called
DivChecks(A, B) ==
    IF A.is_ttm # B.is_ttm THEN "IncompatibleTypes"
    ELSE IF A.N # B.N \/ (A.is_ttm /\ A.M # B.M) THEN "ShapeMismatch"
    ELSE "none"

\* x / y for two TT objects: an exception of the tests, or the call of
\* amen_divide (of torchtt.division), whose result is not modelled: the
\* call is recorded in the index field
TT_div(i, j) ==
    /\ last' = CallAt("div", <<i, j>>,
                      IF DivChecks(Operand(i), Operand(j)) = "none"
                      THEN <<"amen_divide">> ELSE <<>>,
                      0, DivChecks(Operand(i), Operand(j)))
    /\ UNCHANGED <<store, lists, objs>>

(***************************************************************************)
(* Views of tensors: permute, reshape and basic indexing share the storage *)
(***************************************************************************)
\* tn.permute(c, perm) as a view of c
HPermute(h, perm) ==
    LET t == TPermute([shape |-> h.shape, data |-> h.pos], perm)
    IN [st |-> h.st, shape |-> t.shape, pos |-> t.data]

\* tn.reshape(c, shape) where only dimensions of extent 1 come or go: a view
HReshape(h, shape) ==
    IF Prod(shape) # Prod(h.shape) THEN Bad("RuntimeError")
    ELSE [st |-> h.st, shape |-> shape, pos |-> h.pos]

\* tn.reshape(c, [a, -1, b])
HReshapeInfer(h, a, b) ==
    IF a * b = 0 THEN Bad("RuntimeError")
    ELSE IF Prod(h.shape) % (a * b) # 0 THEN Bad("RuntimeError")
    ELSE HReshape(h, <<a, Prod(h.shape) \div (a * b), b>>)

\* an element of an index: an int, a slice lo:hi, or the slice ":"
IntAt(n) == [kind |-> "int", lo |-> n, hi |-> n + 1]

SliceOf(lo, hi) == [kind |-> "slice", lo |-> lo, hi |-> hi]

All == [kind |-> "all", lo |-> 0, hi |-> 0]

Min(a, b) == IF a <= b THEN a ELSE b

SliceStart(e, n) == IF e.kind = "all" THEN 0 ELSE Min(e.lo, n)

SliceStop(e, n) == IF e.kind = "all" THEN n ELSE Min(e.hi, n)

SliceExtent(e, n) == Max(0, SliceStop(e, n) - SliceStart(e, n))

\* c[sel]: an int drops its dimension, a slice keeps the part it selects
HIndex(h, sel) ==
    IF Len(sel) # Len(h.shape) THEN Bad("IndexError")
    ELSE IF \E k \in 1..Len(sel) : sel[k].kind = "int" /\ sel[k].lo >= h.shape[k]
    THEN Bad("IndexError")
    ELSE LET kept == SelectSeq(Ident(Len(sel)), LAMBDA k : sel[k].kind # "int")
             shape == [j \in 1..Len(kept) |->
                          SliceExtent(sel[kept[j]], h.shape[kept[j]])]
         IN [st |-> h.st, shape |-> shape,
             pos |-> [p \in 1..Prod(shape) |->
                        h.pos[Flat(h.shape,
                                   [k \in 1..Len(sel) |->
                                       IF sel[k].kind = "int" THEN sel[k].lo + 1
                                       ELSE SliceStart(sel[k], h.shape[k])
                                            + Unflat(shape, p)[PosOf(kept, k)]])]]]

(***************************************************************************)
(* TT.reduce_dims                                                          *)
(***************************************************************************)
\* a test of the row mode alone
IsUnitMode_RowOnly(is_ttm, shape) == shape[2] = 1

\* the test for a core whose modes all have size 1
IsUnitMode(is_ttm, shape) ==
    IF is_ttm THEN shape[2] = 1 /\ shape[3] = 1 ELSE shape[2] = 1

\* self.cores[i][:,0,:] and self.cores[i][:,0,0,:]
CarryMatrix(core) ==
    TReshape(core, <<core.shape[1], core.shape[Len(core.shape)]>>)

MultLeft(is_ttm, prev, mat) ==
    IF is_ttm
    THEN EinsumOf(<<"i", "j", "o", "k">>, <<"k", "l">>, <<"i", "j", "o", "l">>, prev, mat)
    ELSE EinsumOf(<<"i", "j", "k">>, <<"k", "l">>, <<"i", "j", "l">>, prev, mat)

MultRight(is_ttm, mat, next) ==
    IF is_ttm
    THEN EinsumOf(<<"i", "j">>, <<"j", "k", "m", "l">>, <<"i", "k", "m", "l">>, mat, next)
    ELSE EinsumOf(<<"i", "j">>, <<"j", "k", "l">>, <<"i", "k", "l">>, mat, next)

\* a core is multiplied to the left when its leading rank is not smaller
\* than its trailing rank
FoldsLeft_NotSmaller(shape, i, d) == shape[1] >= shape[Len(shape)] \/ i = d

\* the test for "multiply to the left": the core as the list holds it now
\* has a larger leading than trailing rank, or it is the last core
FoldsLeft(shape, i, d) == shape[1] > shape[Len(shape)] \/ i = d

\* the loop stopped by an exception: what it assigned so far stays
Stopped(e, s, cs, acc) == [err |-> e, store |-> s, list |-> cs, new |-> acc]

\* a new tensor of value t is allocated after the storages s
Allocated(s, t) == FreshHandle(Len(s) + 1, t.shape)

\* the loop of reduce_dims over the list cs of self.cores (handles) in the
\* storages s: it assigns items of the list and collects cores_new in acc
RECURSIVE ReduceLoop(_, _, _, _, _, _)
ReduceLoop(is_ttm, d, s, cs, i, acc) ==
    IF i > d THEN Stopped("none", s, cs, acc)
    ELSE IF i > Len(cs) THEN Stopped("IndexError", s, cs, acc)
    ELSE IF Len(cs[i].shape) < (IF is_ttm THEN 3 ELSE 2)
    THEN Stopped("IndexError", s, cs, acc)
    ELSE IF ~IsUnitMode(is_ttm, cs[i].shape)
    THEN ReduceLoop(is_ttm, d, s, cs, i + 1, Append(acc, cs[i]))
    ELSE IF FoldsLeft(cs[i].shape, i, d) /\ Len(acc) > 0
    THEN LET m == MultLeft(is_ttm, ValueOf(s, acc[Len(acc)]),
                           CarryMatrix(ValueOf(s, cs[i])))
         IN IF IsBad(m) THEN Stopped(m.bad, s, cs, acc)
            ELSE ReduceLoop(is_ttm, d, Append(s, m.data), cs, i + 1,
                            [acc EXCEPT ![Len(acc)] = Allocated(s, m)])
    ELSE IF i = d
    THEN ReduceLoop(is_ttm, d, s, cs, i + 1, Append(acc, cs[i]))
    ELSE IF i + 1 > Len(cs) THEN Stopped("IndexError", s, cs, acc)
    ELSE LET m == MultRight(is_ttm, CarryMatrix(ValueOf(s, cs[i])),
                            ValueOf(s, cs[i + 1]))
         IN IF IsBad(m) THEN Stopped(m.bad, s, cs, acc)
            ELSE ReduceLoop(is_ttm, d, Append(s, m.data),
                            [cs EXCEPT ![i + 1] = Allocated(s, m)], i + 1, acc)

\* the ranks rebuilt from the leading dimensions of cores_new
ReducedRanks_Leading(new) == <<1>> \o [k \in 1..Len(new) |-> new[k].shape[1]]

\* self.R = [1]; self.R.append(cores_new[i].shape[-1]) for every core
ReducedRanks(new) == <<1>> \o [k \in 1..Len(new) |-> new[k].shape[Len(new[k].shape)]]

\* the attributes reduce_dims stores: for a TT-matrix N is read from axis 1
\* and M from axis 2 of the cores
Reduced(o, l, new) ==
    LET N == [k \in 1..Len(new) |-> new[k].shape[2]]
        M == IF o.is_ttm THEN [k \in 1..Len(new) |-> new[k].shape[3]] ELSE o.M
    IN [o EXCEPT !.cores = l, !.N = N, !.M = M, !.R = ReducedRanks(new),
                 !.has_shape = TRUE, !.shape = ShapeOf(o.is_ttm, M, N)]

(***************************************************************************)
(* TT.t, TT.to_ttm, TT.cpu, TT.__truediv__                                 *)
(***************************************************************************)
\* self.t(): the cores with their two modes permuted, as views
Transposed(A) ==
    IF ~A.is_ttm THEN Raise("InvalidArguments")
    ELSE Return([k \in 1..Len(A.h) |-> HPermute(A.h[k], <<1, 3, 2, 4>>)])

\* self.to_ttm(): tn.reshape(c, (c.shape[0], c.shape[1], 1, c.shape[2]))
AsMatrix(A) ==
    Collect([k \in 1..Len(A.h) |->
                HReshape(A.h[k], <<A.h[k].shape[1], A.h[k].shape[2], 1,
                                   A.h[k].shape[3]>>)])

TT_t(i) == Produce("t", <<i>>, 0, Transposed(Operand(i)))

TT_to_ttm(i) == Produce("to_ttm", <<i>>, 0, AsMatrix(Operand(i)))

\* self.cpu(): an object made by TT(None) gets copies of the attributes and a
\* new list of the same tensors (c.cpu() of a tensor on the CPU is c)
TT_cpu(i) ==
    /\ lists' = Append(lists, lists[objs[i].cores])
    /\ objs' = Append(objs, [EmptyObject EXCEPT
                                !.cores = Len(lists) + 1, !.N = objs[i].N,
                                !.R = objs[i].R, !.is_ttm = objs[i].is_ttm,
                                !.M = IF objs[i].is_ttm THEN objs[i].M ELSE <<>>])
    /\ last' = Call("cpu", <<i>>, 0, Len(objs) + 1, "none")
    /\ UNCHANGED store

\* t /= c on the tensor of handle h: the entries it shows are divided in
\* its storage
DividedInPlace(s, h, c) ==
    [s EXCEPT ![h.st] = [q \in 1..Len(@) |->
                            IF q \in Range(h.pos) THEN @[q] \div c ELSE @[q]]]

\* self / c for an int or float c: cores_new = self.cores.copy();
\* cores_new[0] /= other; result = TT(cores_new)
TT_truediv(i, c) ==
    LET l == lists[objs[i].cores]
        r == InitFromList(ShapesOfList(objs[i].cores))
    IN IF Len(l) = 0
       THEN /\ last' = Call("truediv", <<i>>, c, 0, "IndexError")
            /\ UNCHANGED <<store, lists, objs>>
       ELSE /\ store' = DividedInPlace(store, l[1], c)
            /\ IF r.err # "none"
               THEN /\ last' = Call("truediv", <<i>>, c, 0, r.err)
                    /\ UNCHANGED <<lists, objs>>
               ELSE /\ lists' = Append(lists, l)
                    /\ objs' = Append(objs, ObjectOf(Len(lists) + 1, r))
                    /\ last' = Call("truediv", <<i>>, c, Len(objs) + 1, "none")

(***************************************************************************)
(* TT.reduce_dims as a call, TT.sum(index), TT.__getitem__ of a tuple      *)
(***************************************************************************)
\* self.reduce_dims(): items of the list self.cores are assigned in place,
\* then self.cores becomes the new list cores_new
TT_reduce_dims(i) ==
    LET o == objs[i]
        red == ReduceLoop(o.is_ttm, Len(o.N), store, lists[o.cores], 1, <<>>)
    IN /\ store' = red.store
       /\ IF red.err # "none"
          THEN /\ lists' = [lists EXCEPT ![o.cores] = red.list]
               /\ last' = Call("reduce_dims", <<i>>, 0, 0, red.err)
               /\ UNCHANGED objs
          ELSE /\ lists' = Append([lists EXCEPT ![o.cores] = red.list], red.new)
               /\ objs' = [objs EXCEPT ![i] = Reduced(o, Len(lists) + 1, red.new)]
               /\ last' = Call("reduce_dims", <<i>>, 0, 0, "none")

\* S = TT(cores); S.reduce_dims(); with `scalars` a result of one entry is
\* returned as a tensor: tn.squeeze(S.cores[0])
ProduceReduced(op, args, index, out, scalars) ==
    LET r == IF out.err # "none" THEN Failed(out.err)
             ELSE InitFromList([k \in 1..Len(out.cores) |-> out.cores[k].shape])
        red == ReduceLoop(r.is_ttm, Len(r.N), NewStore(out.cores),
                          NewHandles(out.cores), 1, <<>>)
        S == Reduced(ObjectOf(0, r), Len(lists) + 1, red.new)
    IN IF r.err # "none"
       THEN /\ last' = CallAt(op, args, index, 0, r.err)
            /\ UNCHANGED <<store, lists, objs>>
       ELSE IF red.err # "none"
       THEN /\ last' = CallAt(op, args, index, 0, red.err)
            /\ UNCHANGED <<store, lists, objs>>
       ELSE IF scalars /\ S.N = <<1>> /\ (S.is_ttm => S.M = <<1>>)
       THEN /\ last' = [CallAt(op, args, index, 0, "none") EXCEPT
                           !.ret = TSqueeze(ValueOf(red.store, red.new[1]))]
            /\ UNCHANGED <<store, lists, objs>>
       ELSE /\ store' = red.store
            /\ lists' = Append(lists, red.new)
            /\ objs' = Append(objs, S)
            /\ last' = CallAt(op, args, index, Len(objs) + 1, "none")

\* self.sum(index) for a list of ints: the cores named are summed over their
\* modes, the others are the cores of self
SumOver(A, index) ==
    Return([k \in 1..Len(A.N) |->
               IF (k - 1) \in Range(index) THEN SumModes(A.cores[k]) ELSE A.h[k]])

TT_sum(i, index) == ProduceReduced("sum", <<i>>, index, SumOver(Operand(i), index), FALSE)

\* core k of self[index]
SliceCore(A, index, k) ==
    LET d == Len(A.N) IN
    IF A.is_ttm
    THEN IF index[k].kind # "int"
         THEN HIndex(A.h[k], <<All, index[k], index[k + d], All>>)
         ELSE LET v == HIndex(A.h[k], <<All, index[k], index[k + d], All>>)
              IN IF IsBad(v) THEN v ELSE HReshape(v, <<A.R[k], 1, 1, A.R[k + 1]>>)
    ELSE IF index[k].kind # "int"
         THEN HIndex(A.h[k], <<All, index[k], All>>)
         ELSE LET v == HIndex(A.h[k], <<All, index[k], All>>)
              IN IF IsBad(v) THEN v ELSE HReshapeInfer(v, A.R[k], A.R[k + 1])

\* self[index] for a tuple of ints and slices; a tuple with an Ellipsis is
\* refused first
Sliced(A, index) ==
    IF \E k \in 1..Len(index) : index[k].kind = "Ellipsis"
    THEN Raise("NotImplementedError")
    ELSE IF Len(index) # (IF A.is_ttm THEN 2 * Len(A.N) ELSE Len(A.N))
    THEN Raise("InvalidArguments")
    ELSE Collect([k \in 1..Len(A.h) |-> SliceCore(A, index, k)])

TT_getitem(i, index) ==
    ProduceReduced("getitem", <<i>>, index, Sliced(Operand(i), index), TRUE)

\* TT(x.cores): an object on the list of cores of another
TT_from_cores(i) == TT_init(objs[i].cores)

(***************************************************************************)
(* Operands: TT objects built from lists of cores with given entries.      *)
(***************************************************************************)
\* number of different fillings of the cores of an operand
NumSeeds == 2

\* largest absolute value of a scalar operand
MaxScalar == 2

Scalars == (0 - MaxScalar)..MaxScalar

\* the entry at position p of core k in filling number seed: between -2 and 2
Entry(seed, k, p) == ((seed * (k + 1) + p * (seed + k) + p * p) % 5) - 2

Tensor(N, R) == [is_ttm |-> FALSE, M |-> <<>>, N |-> N, R |-> R]

Matrix(M, N, R) == [is_ttm |-> TRUE, M |-> M, N |-> N, R |-> R]

\* the mode sizes and ranks of the operands of SpecArith
ArithKinds ==
    { Tensor(<<2>>, <<1, 1>>), Tensor(<<1>>, <<1, 1>>), Tensor(<<3>>, <<1, 1>>),
      Tensor(<<2, 2>>, <<1, 2, 1>>), Tensor(<<2, 1>>, <<1, 1, 1>>),
      Tensor(<<2, 1, 2>>, <<1, 2, 2, 1>>),
      Matrix(<<2>>, <<2>>, <<1, 1>>), Matrix(<<2, 2>>, <<3, 1>>, <<1, 2, 1>>),
      Matrix(<<1, 2, 2>>, <<2, 1, 1>>, <<1, 2, 2, 1>>) }

CoreShape(kind, k) ==
    IF kind.is_ttm THEN <<kind.R[k], kind.M[k], kind.N[k], kind.R[k + 1]>>
    ELSE <<kind.R[k], kind.N[k], kind.R[k + 1]>>

CoreShapes(kind) == [k \in 1..Len(kind.N) |-> CoreShape(kind, k)]

CoreData(kind, seed) ==
    [k \in 1..Len(kind.N) |->
        [p \in 1..Prod(CoreShape(kind, k)) |-> Entry(seed, k, p)]]

\* the handles of the cores of an operand whose storages start after `base`
CoreHandles(kind, base) ==
    [k \in 1..Len(kind.N) |-> FreshHandle(base + k, CoreShape(kind, k))]

\* the state after x = TT(cores_x); y = TT(cores_y)
TwoOperands(ka, sa, kb, sb) ==
    /\ store = CoreData(ka, sa) \o CoreData(kb, sb)
    /\ lists = <<CoreHandles(ka, 0), CoreHandles(kb, Len(ka.N))>>
    /\ objs = <<ObjectOf(1, InitFromList(CoreShapes(ka))),
                ObjectOf(2, InitFromList(CoreShapes(kb)))>>
    /\ last = NoCall

(***************************************************************************)
(* SpecArith: one call of an additive operator on two operands.            *)
(***************************************************************************)
InitArith ==
    \E ka \in ArithKinds, kb \in ArithKinds, sa \in 1..NumSeeds, sb \in 1..NumSeeds :
        TwoOperands(ka, sa, kb, sb)

NextArith ==
    \/ last = NoCall /\ TT_add(1, 2)
    \/ last = NoCall /\ TT_sub(1, 2)
    \/ last = NoCall /\ \E c \in Scalars : TT_add_scalar(1, c)
    \/ last = NoCall /\ \E c \in Scalars : TT_radd(1, c)
    \/ last = NoCall /\ \E c \in Scalars : TT_sub_scalar(1, c)
    \/ last = NoCall /\ \E c \in Scalars : TT_rsub(1, c)
    \/ last = NoCall /\ TT_neg(1)

SpecArith == InitArith /\ [][NextArith]_vars

(***************************************************************************)
(* SpecCtor: one call of a constructor on a list of tensors of any shapes. *)
(***************************************************************************)
CtorShapes == UNION {SeqsOf(CtorDims, n) : n \in CtorNdims}

CtorInputs == SeqsUpTo(CtorShapes, MaxCores)

\* the tensors of a list of the given shapes, each on a storage of its own
ZeroStore(shapes) == [i \in 1..Len(shapes) |-> [p \in 1..Prod(shapes[i]) |-> 0]]

HandlesOf(shapes) == [i \in 1..Len(shapes) |-> FreshHandle(i, shapes[i])]

InitCtor ==
    \E shapes \in CtorInputs :
        /\ store = ZeroStore(shapes)
        /\ lists = <<HandlesOf(shapes)>>
        /\ objs = <<>>
        /\ last = NoCall

NextCtor ==
    \/ objs = <<>> /\ last = NoCall /\ TT_init(1)
    \/ objs = <<>> /\ last = NoCall /\ TT_None
    \/ objs = <<>> /\ last = NoCall /\ emptyTT
    \/ objs = <<>> /\ last = NoCall /\ emptyTTM
    \/ objs = <<>> /\ last = NoCall /\ ones_empty

SpecCtor == InitCtor /\ [][NextCtor]_vars


(***************************************************************************)
(* SpecOps: chains of operators, each applied to the object made last.     *)
(***************************************************************************)
\* the most objects a chain makes, its two operands included
MaxObjs == 4

\* the most entries of a core a chain goes on with
MaxEntries == 48

OpsPairs ==
    { <<Tensor(<<2, 2>>, <<1, 2, 1>>), Tensor(<<2, 2>>, <<1, 2, 1>>)>>,
      <<Matrix(<<2, 2>>, <<3, 1>>, <<1, 2, 1>>), Matrix(<<2, 2>>, <<3, 1>>, <<1, 2, 1>>)>>,
      <<Tensor(<<3, 1>>, <<1, 2, 1>>), Matrix(<<2, 2>>, <<3, 1>>, <<1, 2, 1>>)>>,
      <<Matrix(<<2, 2>>, <<3, 1>>, <<1, 2, 1>>), Tensor(<<2, 2>>, <<1, 2, 1>>)>>,
      <<Tensor(<<1, 2>>, <<1, 2, 1>>), Tensor(<<1, 2>>, <<1, 2, 1>>)>>,
      <<Tensor(<<2>>, <<1, 1>>), Tensor(<<2>>, <<1, 1>>)>> }

ChainScalars == {-1, 2}

SumIndexes == {<<0>>, <<1>>, <<0, 1>>}

IndexElements == {IntAt(0), IntAt(1), SliceOf(0, 1)}

\* the tuples an object is indexed with: one element (or the two elements of
\* one core of a TT-matrix) fixed and ":" elsewhere, or 0 everywhere
IndexesFor(o) ==
    LET d == Len(o.N)
        n == IF o.is_ttm THEN 2 * d ELSE d
    IN {[k \in 1..n |-> IF k = q THEN e ELSE All] : q \in 1..n, e \in IndexElements}
       \cup {[k \in 1..n |-> IF k = q \/ k = q + d THEN e ELSE All] :
                q \in 1..d, e \in IndexElements}
       \cup {[k \in 1..n |-> IntAt(0)], <<All>>}

\* the factor matrices of mprod
Factors ==
    { [shape |-> <<1, 2>>, data |-> <<1, 1>>],
      [shape |-> <<2, 2>>, data |-> <<0, 1, 1, 0>>],
      [shape |-> <<2, 3>>, data |-> <<1, 0, 1, 0, 1, 0>>] }

\* no core has grown beyond MaxEntries
Bounded == \A l \in 1..Len(lists) : \A k \in 1..Len(lists[l]) :
               Prod(lists[l][k].shape) <= MaxEntries

\* the program goes on: no exception has ended it, and the chain is short
GoesOn == last.err = "none" /\ Len(objs) < MaxObjs

\* the pairs of operands of a binary operator: one is the object made last
LastPairs == {p \in (1..Len(objs)) \X (1..Len(objs)) :
                 p[1] = Len(objs) \/ p[2] = Len(objs)}

InitOps ==
    \E p \in OpsPairs, s \in 1..NumSeeds :
        TwoOperands(p[1], s, p[2], (s % NumSeeds) + 1)

NextOps ==
    \/ GoesOn /\ \E p \in LastPairs : TT_add(p[1], p[2]) /\ Bounded'
    \/ GoesOn /\ \E p \in LastPairs : TT_sub(p[1], p[2]) /\ Bounded'
    \/ GoesOn /\ \E p \in LastPairs : TT_mul(p[1], p[2]) /\ Bounded'
    \/ GoesOn /\ \E p \in LastPairs : TT_matmul(p[1], p[2]) /\ Bounded'
    \/ GoesOn /\ \E p \in LastPairs : TT_kron(p[1], p[2]) /\ Bounded'
    \/ GoesOn /\ \E c \in ChainScalars : TT_add_scalar(Len(objs), c) /\ Bounded'
    \/ GoesOn /\ \E c \in ChainScalars : TT_sub_scalar(Len(objs), c) /\ Bounded'
    \/ GoesOn /\ \E c \in ChainScalars : TT_rsub(Len(objs), c) /\ Bounded'
    \/ GoesOn /\ \E c \in ChainScalars : TT_mul_scalar(Len(objs), c) /\ Bounded'
    \/ GoesOn /\ TT_neg(Len(objs))
    \/ GoesOn /\ TT_pos(Len(objs))
    \/ GoesOn /\ TT_t(Len(objs))
    \/ GoesOn /\ TT_to_ttm(Len(objs))
    \/ GoesOn /\ \E index \in SumIndexes : TT_sum(Len(objs), index)
    \/ GoesOn /\ \E index \in IndexesFor(objs[Len(objs)]) : TT_getitem(Len(objs), index)
    \/ GoesOn /\ \E F \in Factors, mode \in {0, 1} : TT_mprod(Len(objs), F, mode)
    \/ GoesOn /\ \E F \in Factors : TT_mprod_tensor(Len(objs), F, 0)
    \/ GoesOn /\ TT_kron_left_none(Len(objs))
    \/ GoesOn /\ TT_kron_right_none(Len(objs))
    \/ GoesOn /\ TT_kron_none_none
    \/ GoesOn /\ \E p \in LastPairs : TT_div(p[1], p[2])

SpecOps == InitOps /\ [][NextOps]_vars

(***************************************************************************)
(* SpecAlias: the chains of SpecOps with the operations that share cores   *)
(* or lists, and those that change a list or a core in place.              *)
(***************************************************************************)
\* the scalars a TT is divided by: the quotients are integers
Divisors == {-1, 1}

\* the operands of SpecAlias
AliasPairs ==
    { <<Matrix(<<2, 2>>, <<3, 1>>, <<1, 2, 1>>), Matrix(<<2, 2>>, <<3, 1>>, <<1, 2, 1>>)>>,
      <<Matrix(<<2, 2>>, <<3, 1>>, <<1, 2, 1>>), Tensor(<<3, 1>>, <<1, 2, 1>>)>>,
      <<Tensor(<<1, 2>>, <<1, 2, 1>>), Tensor(<<1, 2>>, <<1, 2, 1>>)>> }

InitAlias ==
    \E p \in AliasPairs, s \in 1..NumSeeds :
        TwoOperands(p[1], s, p[2], (s % NumSeeds) + 1)

NextAlias ==
    \/ GoesOn /\ \E p \in LastPairs : TT_add(p[1], p[2]) /\ Bounded'
    \/ GoesOn /\ \E p \in LastPairs : TT_sub(p[1], p[2]) /\ Bounded'
    \/ GoesOn /\ \E p \in LastPairs : TT_mul(p[1], p[2]) /\ Bounded'
    \/ GoesOn /\ \E p \in LastPairs : TT_matmul(p[1], p[2]) /\ Bounded'
    \/ GoesOn /\ \E p \in LastPairs : TT_kron(p[1], p[2]) /\ Bounded'
    \/ GoesOn /\ \E c \in ChainScalars : TT_mul_scalar(Len(objs), c) /\ Bounded'
    \/ GoesOn /\ \E c \in Divisors : TT_truediv(Len(objs), c)
    \/ GoesOn /\ TT_neg(Len(objs))
    \/ GoesOn /\ TT_pos(Len(objs))
    \/ GoesOn /\ TT_t(Len(objs))
    \/ GoesOn /\ TT_to_ttm(Len(objs))
    \/ GoesOn /\ TT_cpu(Len(objs))
    \/ GoesOn /\ TT_from_cores(Len(objs))
    \/ GoesOn /\ \E index \in SumIndexes : TT_sum(Len(objs), index)
    \/ GoesOn /\ \E index \in IndexesFor(objs[Len(objs)]) : TT_getitem(Len(objs), index)
    \/ last.err = "none" /\ Len(lists) < MaxObjs /\ TT_reduce_dims(Len(objs))

SpecAlias == InitAlias /\ [][NextAlias]_vars

(***************************************************************************)
(* The scalar operand of +, - and *: an int, a float or a torch tensor.    *)
(***************************************************************************)
\* the python values given as scalar operand: ints, floats (of integer
\* value), tensors of one element with 0 dimensions and with 1 dimension
ScalarArgs ==
    [kind : {"int", "float"}, shape : {<<>>}, value : Scalars]
       \cup [kind : {"tensor"}, shape : {<<>>, <<1>>}, value : Scalars]

\* np.isscalar(other)
NpIsScalar(s) == s.kind \in {"int", "float"}

\* tn.is_tensor(other)
IsTensorArg(s) == s.kind = "tensor"

\* other.shape == []: a torch.Size is a tuple, and a tuple never equals a
\* list
SizeEqualsList(size, list) == FALSE

\* the else branch of __add__ and __sub__ makes an InvalidArguments without
\* raising it; return result then finds no result
NoResult == Raise("UnboundLocalError")

\* self + other for an other that is no TT
AddAny(A, s) ==
    IF NpIsScalar(s) \/ (IsTensorArg(s) /\ Prod(s.shape) = 1)
    THEN AddScalar(A, s.value, FALSE)
    ELSE NoResult

\* self - other for an other that is no TT
SubAny(A, s) ==
    IF NpIsScalar(s) \/ (IsTensorArg(s) /\ SizeEqualsList(s.shape, <<>>))
    THEN AddScalar(A, s.value, TRUE)
    ELSE NoResult

\* other - self: T = self.__sub__(other); T.cores[0] = -T.cores[0]
RSubAny(A, s) ==
    IF SubAny(A, s).err # "none" THEN SubAny(A, s) ELSE RSubScalar(A, s.value)

\* self * other for an other that is no TT: isinstance(other, tn.tensor) is
\* evaluated for what is neither int nor float, and tn.tensor is no type
MulAny(A, s) ==
    IF s.kind \in {"int", "float"} THEN MulScalar(A, s.value)
    ELSE Raise("TypeError")

\* the call of an operator with the scalar operand s
ScalarCall(op, i, s, res, err) ==
    [Call(op, <<i>>, s.value, res, err) EXCEPT !.index = <<s.kind>> \o s.shape]

\* result = TT(cores); return result, for the call c
ProduceAs(c, out) ==
    LET r == IF out.err # "none" THEN Failed(out.err)
             ELSE InitFromList([k \in 1..Len(out.cores) |-> out.cores[k].shape])
    IN IF r.err # "none"
       THEN /\ last' = [c EXCEPT !.err = r.err]
            /\ UNCHANGED <<store, lists, objs>>
       ELSE /\ store' = NewStore(out.cores)
            /\ lists' = Append(lists, NewHandles(out.cores))
            /\ objs' = Append(objs, ObjectOf(Len(lists) + 1, r))
            /\ last' = [c EXCEPT !.res = Len(objs) + 1]

ProduceScalar(op, i, s, out) == ProduceAs(ScalarCall(op, i, s, 0, "none"), out)

TT_add_any(i, s) == ProduceScalar("x + c", i, s, AddAny(View(i), s))

\* c + x is x.__radd__(c), which is x.__add__(c)
TT_radd_any(i, s) == ProduceScalar("c + x", i, s, AddAny(View(i), s))

TT_sub_any(i, s) == ProduceScalar("x - c", i, s, SubAny(View(i), s))

TT_rsub_any(i, s) == ProduceScalar("c - x", i, s, RSubAny(View(i), s))

TT_mul_any(i, s) == ProduceScalar("x * c", i, s, MulAny(Operand(i), s))

(***************************************************************************)
(* SpecScalar: one call of an operator with a scalar operand.              *)
(***************************************************************************)
InitScalar ==
    \E ka \in ArithKinds, sa \in 1..NumSeeds : TwoOperands(ka, sa, ka, sa)

NextScalar ==
    \/ last = NoCall /\ \E s \in ScalarArgs : TT_add_any(1, s)
    \/ last = NoCall /\ \E s \in ScalarArgs : TT_radd_any(1, s)
    \/ last = NoCall /\ \E s \in ScalarArgs : TT_sub_any(1, s)
    \/ last = NoCall /\ \E s \in ScalarArgs : TT_rsub_any(1, s)
    \/ last = NoCall /\ \E s \in ScalarArgs : TT_mul_any(1, s)

SpecScalar == InitScalar /\ [][NextScalar]_vars

(***************************************************************************)
(* SpecIndex: one call of x[index] with a tuple of ints and slices, every  *)
(* element within the mode it indexes.                                     *)
(***************************************************************************)
\* the ints and the slices of a mode of size n
ElementsFor(n) ==
    {IntAt(v) : v \in 0..(n - 1)}
       \cup {SliceOf(p[1], p[2]) : p \in {q \in (0..(n - 1)) \X (1..n) : q[1] < q[2]}}
       \cup {All}

\* the tuples whose k-th element is taken from the k-th set
RECURSIVE TuplesOver(_)
TuplesOver(sets) ==
    IF Len(sets) = 0 THEN {<<>>}
    ELSE {<<e>> \o t : e \in Head(sets), t \in TuplesOver(Tail(sets))}

\* the sizes of the modes a tuple indexes: self.N, or the rows and then
\* the columns of a TT-matrix
IndexedModes(o) == IF o.is_ttm THEN o.M \o o.N ELSE o.N

InRangeIndexes(o) ==
    TuplesOver([k \in 1..Len(IndexedModes(o)) |-> ElementsFor(IndexedModes(o)[k])])

\* the mode sizes and ranks of the objects of SpecIndex
IndexKinds ==
    { Tensor(<<2>>, <<1, 1>>), Tensor(<<1>>, <<1, 1>>), Tensor(<<3>>, <<1, 1>>),
      Tensor(<<2, 2>>, <<1, 2, 1>>), Tensor(<<2, 1>>, <<1, 1, 1>>),
      Tensor(<<2, 1, 2>>, <<1, 2, 2, 1>>),
      Matrix(<<2>>, <<2>>, <<1, 1>>), Matrix(<<2, 2>>, <<3, 1>>, <<1, 2, 1>>) }

InitIndex ==
    \E ka \in IndexKinds, sa \in 1..NumSeeds : TwoOperands(ka, sa, ka, sa)

NextIndex ==
    last = NoCall /\ \E index \in InRangeIndexes(objs[1]) : TT_getitem(1, index)

SpecIndex == InitIndex /\ [][NextIndex]_vars

(***************************************************************************)
(* eye(shape), and SpecEye: E = eye(x.N) followed by one product with E.   *)
(***************************************************************************)
\* every core an all-ones matrix
EyeCores_Ones(shape) ==
    [k \in 1..Len(shape) |-> TFull(<<1, shape[k], shape[k], 1>>, 1)]

\* tn.unsqueeze(tn.unsqueeze(tn.eye(s), 0), 3) for s in shape
EyeCores(shape) ==
    [k \in 1..Len(shape) |->
        TMake(<<1, shape[k], shape[k], 1>>,
              LAMBDA idx : IF idx[2] = idx[3] THEN 1 ELSE 0)]

TT_eye(shape) ==
    ProduceAs(CallAt("eye", <<>>, shape, 0, "none"), Return(EyeCores(shape)))

InitEye ==
    \E ka \in ArithKinds, kb \in ArithKinds, sa \in 1..NumSeeds :
        TwoOperands(ka, sa, kb, (sa % NumSeeds) + 1)

NextEye ==
    \/ last = NoCall /\ \E i \in 1..Len(objs) : TT_eye(objs[i].N)
    \/ last.op = "eye" /\ last.err = "none" /\
          \E j \in 1..(Len(objs) - 1) : TT_matmul(last.res, j)
    \/ last.op = "eye" /\ last.err = "none" /\
          \E j \in 1..(Len(objs) - 1) : TT_matmul(j, last.res)

SpecEye == InitEye /\ [][NextEye]_vars

(***************************************************************************)
(* Operands of unsupported type: a str, a list, None.                      *)
(***************************************************************************)
OtherArgs == [kind : {"str", "list", "None"}, shape : {<<>>}, value : {0}]

\* x + other: np.isscalar holds for a str, and tn.ones(...) * other is a
\* TypeError; a list and None reach the else branch, which makes an
\* InvalidArguments without raising it
TT_add_other(i, s) ==
    ProduceScalar("x + o", i, s,
                  IF s.kind = "str" THEN Raise("TypeError") ELSE AddAny(View(i), s))

\* x - other: as x + other, with -other the TypeError for a str
TT_sub_other(i, s) ==
    ProduceScalar("x - o", i, s,
                  IF s.kind = "str" THEN Raise("TypeError") ELSE SubAny(View(i), s))

\* x * other: isinstance(other, tn.tensor), and tn.tensor is no type
TT_mul_other(i, s) == ProduceScalar("x * o", i, s, MulAny(Operand(i), s))

\* x / other: the else branch raises InvalidArguments
TT_div_other(i, s) == ProduceScalar("x / o", i, s, Raise("InvalidArguments"))

\* x @ other: tn.is_tensor(other) is False, and the next test that is not
\* cut short by self.is_ttm reads other.is_ttm
TT_matmul_other(i, s) == ProduceScalar("x @ o", i, s, Raise("AttributeError"))

(***************************************************************************)
(* SpecOther: one call of an operator with an operand of unsupported type, *)
(* or of @ with two TT operands.                                           *)
(***************************************************************************)
InitOther ==
    \E ka \in ArithKinds, kb \in ArithKinds, sa \in 1..NumSeeds :
        TwoOperands(ka, sa, kb, 1)

NextOther ==
    \/ last = NoCall /\ \E s \in OtherArgs : TT_add_other(1, s)
    \/ last = NoCall /\ \E s \in OtherArgs : TT_sub_other(1, s)
    \/ last = NoCall /\ \E s \in OtherArgs : TT_mul_other(1, s)
    \/ last = NoCall /\ \E s \in OtherArgs : TT_div_other(1, s)
    \/ last = NoCall /\ \E s \in OtherArgs : TT_matmul_other(1, s)
    \/ last = NoCall /\ TT_matmul(1, 2)

SpecOther == InitOther /\ [][NextOther]_vars

(***************************************************************************)
(* x[index] for an index that is no tuple, and SpecItem: one call of       *)
(* x[index] with an index of any kind and length.                          *)
(***************************************************************************)
EllipsisAt == [kind |-> "Ellipsis", lo |-> 0, hi |-> 0]

StrAt == [kind |-> "str", lo |-> 0, hi |-> 0]

\* self[index] for an index that is no tuple: an int reads
\* self.cores[0][0, index, 0] when there is one mode; for every index that
\* is no int isinstance(index, Ellipsis) is evaluated next, and Ellipsis is
\* no type
TT_getitem_single(i, e) ==
    LET A == Operand(i)
        v == HIndex(A.h[1], IF A.is_ttm THEN <<IntAt(0), e, IntAt(0), All>>
                            ELSE <<IntAt(0), e, IntAt(0)>>)
    IN /\ last' = IF e.kind # "int"
                  THEN CallAt("getitem1", <<i>>, <<e>>, 0, "TypeError")
                  ELSE IF Len(A.N) # 1
                  THEN CallAt("getitem1", <<i>>, <<e>>, 0, "InvalidArguments")
                  ELSE IF IsBad(v)
                  THEN CallAt("getitem1", <<i>>, <<e>>, 0, v.bad)
                  ELSE [CallAt("getitem1", <<i>>, <<e>>, 0, "none") EXCEPT
                           !.ret = ValueOf(store, v)]
       /\ UNCHANGED <<store, lists, objs>>

\* largest int given as index
MaxIndex == 2

SingleIndexes ==
    {IntAt(v) : v \in 0..MaxIndex} \cup {SliceOf(0, 1), SliceOf(1, 2), All, EllipsisAt, StrAt}

\* the tuples of at most one element more than the object has modes
TupleIndexes(o) == SeqsUpTo({IntAt(0), All, EllipsisAt}, Len(IndexedModes(o)) + 1)

InitItem ==
    \E ka \in IndexKinds, sa \in 1..NumSeeds : TwoOperands(ka, sa, ka, sa)

NextItem ==
    \/ last = NoCall /\ \E index \in TupleIndexes(objs[1]) : TT_getitem(1, index)
    \/ last = NoCall /\ \E e \in SingleIndexes : TT_getitem_single(1, e)

SpecItem == InitItem /\ [][NextItem]_vars

(***************************************************************************)
(* SpecReduce: x.reduce_dims() on a valid x, beside an equal object y that *)
(* is left alone.                                                          *)
(***************************************************************************)
\* most cores of an object of SpecReduce
MaxReduceCores == 4

\* largest inner rank of an object of SpecReduce
MaxReduceRank == 2

Ranked(d) == {<<1>> \o r \o <<1>> : r \in SeqsOf(1..MaxReduceRank, d - 1)}

\* tensors with modes of size 1 and 2 at every place, matrices of up to two
\* cores, and tensors of four cores with ranks up to 3
ReduceKinds ==
    UNION {{Tensor(N, R) : N \in SeqsOf({1, 2}, d), R \in Ranked(d)} :
              d \in 1..MaxReduceCores}
       \cup UNION {{Matrix(M, N, R) :
                       M \in SeqsOf({1, 2}, d), N \in SeqsOf({1, 2}, d), R \in Ranked(d)} :
                      d \in 1..2}
       \cup { Tensor(<<2, 1, 1, 2>>, <<1, 1, 3, 2, 1>>),
              Tensor(<<2, 1, 1, 2>>, <<1, 2, 3, 1, 1>>),
              Tensor(<<1, 1, 1, 1>>, <<1, 2, 3, 2, 1>>) }

InitReduce ==
    \E ka \in ReduceKinds, sa \in 1..NumSeeds : TwoOperands(ka, sa, ka, sa)

NextReduce == last = NoCall /\ TT_reduce_dims(1)

SpecReduce == InitReduce /\ [][NextReduce]_vars

(***************************************************************************)
(* TT.norm, and SpecNorm: one call of x.norm(squared) on a valid x.         *)
(***************************************************************************)
\* self.norm(squared) for cores that require a gradient (grad) or not.
\* With a gradient the cores are contracted with themselves one by one.
\* Without, the sweep over the cores 0..d-2 assigns core_next and the norm
\* of core_next is returned: for d == 1 the loop body never runs and
\* core_next is not bound.  QR (torchtt.decomposition) keeps the Frobenius
\* norm, so both paths end with the sum of the squares of the entries; ret
\* holds that sum, and c tells whether it (1) or its root (0) is returned.
TT_norm(i, squared, grad) ==
    LET A == View(i)
        sum == SumSeq([p \in 1..Len(full(A).data) |-> full(A).data[p] * full(A).data[p]])
        c == IF squared THEN 1 ELSE 0
    IN /\ last' = IF ~grad /\ Len(A.cores) = 1
                  THEN Call("norm", <<i>>, c, 0, "UnboundLocalError")
                  ELSE [Call("norm", <<i>>, c, 0, "none") EXCEPT
                           !.ret = [shape |-> <<>>, data |-> <<sum>>]]
       /\ UNCHANGED <<store, lists, objs>>

NextNorm ==
    last = NoCall /\ \E squared \in BOOLEAN, grad \in BOOLEAN : TT_norm(1, squared, grad)

SpecNorm == InitReduce /\ [][NextNorm]_vars

(***************************************************************************)
(* reshape(tens, shape): the sweep over the cores, one iteration of its    *)
(* `while True` loop per step.  While the call runs, last.ret holds the    *)
(* locals of the loop: core, idx, idx_shape and cores_new.                 *)
(***************************************************************************)
\* the identity matrix of size n
EyeMatrix(n) ==
    [shape |-> <<n, n>>,
     data |-> [p \in 1..(n * n) |-> IF (p - 1) \div n = (p - 1) % n THEN 1 ELSE 0]]

\* to_tt and mat_to_tt (torchtt.decomposition) of a matrix x: two factors
\* whose product is x.  The rank they find depends on the entries; here it
\* is the smaller dimension of x, with one factor the identity.
Factor(x) ==
    IF x.shape[1] <= x.shape[2]
    THEN [left |-> EyeMatrix(x.shape[1]), right |-> x]
    ELSE [left |-> x, right |-> EyeMatrix(x.shape[2])]

\* the row sizes and the column sizes of a list of pairs
RowsOf(shape) == [k \in 1..Len(shape) |-> shape[k][1]]

ColsOf(shape) == [k \in 1..Len(shape) |-> shape[k][2]]

\* the locals when the loop is entered
ReshapeEnter(A) ==
    [pc |-> "loop", core |-> A.cores[1], idx |-> 0, idx_shape |-> 0,
     cores_new |-> <<>>, err |-> "none"]

\* idx_shape += 1; if idx_shape == len(shape): break
NextShape(f, shape) ==
    [f EXCEPT !.idx_shape = @ + 1,
              !.pc = IF f.idx_shape + 1 = Len(shape) THEN "break" ELSE "loop"]

\* cores_new.append(core+0), then the next core of tens unless core was the
\* last
TakeCore(A, shape, f) ==
    IF f.idx = Len(A.cores) - 1
    THEN [f EXCEPT !.cores_new = Append(@, f.core), !.pc = "break"]
    ELSE NextShape([f EXCEPT !.cores_new = Append(@, f.core), !.idx = @ + 1,
                             !.core = A.cores[f.idx + 2]], shape)

\* one iteration for a TT-tensor
ReshapeStepTensor(A, shape, f) ==
    IF f.idx_shape + 1 > Len(shape)
    THEN [f EXCEPT !.pc = "raise", !.err = "IndexError"]
    ELSE LET s1 == shape[f.idx_shape + 1]
             r1 == f.core.shape[1]
             r2 == f.core.shape[3]
             s2 == f.core.shape[2] \div s1
             crz == Factor(TReshape(f.core, <<r1 * s1, s2 * r2>>))
             r == crz.left.shape[2]
         IN IF f.core.shape[2] % s1 = 0
            THEN IF s2 > 1
                 THEN NextShape([f EXCEPT
                                    !.cores_new = Append(@, TReshape(crz.left, <<r1, s1, r>>)),
                                    !.core = TReshape(crz.right, <<r, s2, r2>>)], shape)
                 ELSE TakeCore(A, shape, f)
            ELSE IF f.idx + 1 >= Len(A.cores)
                 THEN [f EXCEPT !.idx = @ + 1, !.pc = "break"]
                 ELSE [f EXCEPT
                          !.idx = @ + 1,
                          !.core = TReshape(Contract(f.core, A.cores[f.idx + 2]),
                                            <<r1, f.core.shape[2] * A.cores[f.idx + 2].shape[2],
                                              A.cores[f.idx + 2].shape[3]>>)]

\* one iteration for a TT-matrix
ReshapeStepMatrix(A, shape, f) ==
    IF f.idx_shape + 1 > Len(shape)
    THEN [f EXCEPT !.pc = "raise", !.err = "IndexError"]
    ELSE LET m1 == RowsOf(shape)[f.idx_shape + 1]
             n1 == ColsOf(shape)[f.idx_shape + 1]
             r1 == f.core.shape[1]
             r2 == f.core.shape[4]
             m2 == f.core.shape[2] \div m1
             n2 == f.core.shape[3] \div n1
             tmp == TReshape(f.core, <<r1 * m1, m2, n1, n2 * r2>>)
             crz == Factor(TReshape(TPermute(tmp, <<1, 3, 2, 4>>),
                                    <<r1 * m1 * n1, m2 * n2 * r2>>))
             r == crz.left.shape[2]
             next == A.cores[f.idx + 2]
         IN IF f.core.shape[2] % m1 = 0 /\ f.core.shape[3] % n1 = 0
            THEN IF m2 > 1 /\ n2 > 1
                 THEN NextShape([f EXCEPT
                                    !.cores_new = Append(@, TReshape(crz.left, <<r1, m1, n1, r>>)),
                                    !.core = TReshape(crz.right, <<r, m2, n2, r2>>)], shape)
                 ELSE TakeCore(A, shape, f)
            ELSE IF f.idx + 1 >= Len(A.cores)
                 THEN [f EXCEPT !.idx = @ + 1, !.pc = "break"]
                 ELSE [f EXCEPT
                          !.idx = @ + 1,
                          !.core = TReshape(TPermute(Contract(f.core, next),
                                                     <<1, 2, 4, 3, 5, 6>>),
                                            <<r1, f.core.shape[2] * next.shape[2],
                                              f.core.shape[3] * next.shape[3],
                                              next.shape[4]>>)]

\* reshape(tens, shape) up to the loop: the test of the products
TT_reshape(i, shape) ==
    LET A == View(i)
        differ == IF A.is_ttm
                  THEN Prod(A.N) # Prod(ColsOf(shape)) \/ Prod(A.M) # Prod(RowsOf(shape))
                  ELSE Prod(A.N) # Prod(shape)
    IN /\ last' = IF differ THEN CallAt("reshape", <<i>>, shape, 0, "ShapeMismatch")
                  ELSE [CallAt("reshape", <<i>>, shape, 0, "none") EXCEPT
                           !.ret = ReshapeEnter(A)]
       /\ UNCHANGED <<store, lists, objs>>

\* the call of reshape is inside its loop
InLoop == last.op = "reshape" /\ last.err = "none" /\ last.res = 0

\* one iteration of the loop; the iteration that leaves the loop goes on to
\* return TT(cores_new).round(eps).  round (round_tt of
\* torchtt.decomposition) keeps the mode sizes; its cut of the ranks is left
\* out.
TT_reshape_step ==
    /\ InLoop
    /\ LET A == View(last.args[1])
           f == IF A.is_ttm THEN ReshapeStepMatrix(A, last.index, last.ret)
                ELSE ReshapeStepTensor(A, last.index, last.ret)
       IN IF f.pc = "raise"
          THEN /\ last' = [last EXCEPT !.err = f.err, !.ret = f]
               /\ UNCHANGED <<store, lists, objs>>
          ELSE IF f.pc = "loop"
          THEN /\ last' = [last EXCEPT !.ret = f]
               /\ UNCHANGED <<store, lists, objs>>
          ELSE ProduceAs([last EXCEPT !.ret = f], Return(f.cores_new))

(***************************************************************************)
(* SpecReshape: one call of reshape(x, shape) on a valid x.                *)
(***************************************************************************)
\* most modes of a target shape of a TT-tensor
MaxTargetModes == 3

\* most pairs of a target shape of a TT-matrix
MaxTargetPairs == 2

ReshapeKinds ==
    UNION {{Tensor(N, R) : R \in Ranked(Len(N))} :
              N \in { <<1>>, <<2>>, <<4>>, <<6>>, <<1, 2>>, <<2, 1>>, <<2, 2>>, <<1, 4>>,
                      <<4, 1>>, <<2, 3>>, <<3, 2>>, <<6, 2>>, <<4, 3>>, <<2, 1, 2>> }}
       \cup UNION {{Matrix(p[1], p[2], R) : R \in Ranked(Len(p[1]))} :
                      p \in { <<<<1>>, <<1>>>>, <<<<2>>, <<2>>>>, <<<<4>>, <<2>>>>,
                              <<<<4>>, <<4>>>>, <<<<2, 2>>, <<2, 1>>>>,
                              <<<<2, 2>>, <<2, 2>>>>, <<<<1, 4>>, <<2, 2>>>>,
                              <<<<2, 1>>, <<2, 1>>>> }}

\* the target shapes given for the object o
TargetsFor(o) ==
    IF o.is_ttm THEN SeqsUpTo({1, 2, 4} \X {1, 2, 4}, MaxTargetPairs)
    ELSE SeqsUpTo({1, 2, 3, 4, 6}, MaxTargetModes)

InitReshape ==
    \E ka \in ReshapeKinds, sa \in 1..NumSeeds : TwoOperands(ka, sa, ka, sa)

NextReshape ==
    \/ last = NoCall /\ \E shape \in TargetsFor(objs[1]) : TT_reshape(1, shape)
    \/ TT_reshape_step

SpecReshape == InitReshape /\ [][NextReshape]_vars

(***************************************************************************)
(* TT.to_qtt and TT.qtt_to_tens                                            *)
(***************************************************************************)
\* int(math.log(n, m)): the largest p with m^p <= n (the floating point
\* quotient is exact for the sizes used here)
RECURSIVE IntLog(_, _)
IntLog(n, m) == IF n < m THEN 0 ELSE 1 + IntLog(n \div m, m)

\* to_tt (torchtt.decomposition) of the array x of shape dims, given as the
\* matrix of r * dims[1] rows: a chain of cores whose product is x, made
\* with Factor
RECURSIVE ToTT(_, _, _)
ToTT(x, dims, r) ==
    IF Len(dims) = 1 THEN <<TReshape(x, <<r, dims[1], 1>>)>>
    ELSE LET crz == Factor(x)
             q == crz.left.shape[2]
         IN <<TReshape(crz.left, <<r, dims[1], q>>)>>
               \o ToTT(TReshape(crz.right,
                                <<q * dims[2], Prod(Tail(Tail(dims)))>>),
                       Tail(dims), q)

\* the cores to_qtt makes of one core of a TT-tensor: a mode of size
\* m^p with p > 2 is split in p modes; every other core is appended as it is
QttOfCore(h, core, m) ==
    LET p == IntLog(core.shape[2], m)
        Nnew == <<core.shape[1] * m>> \o [k \in 1..(p - 2) |-> m] \o <<core.shape[3] * m>>
        cores == ToTT(TReshape(core, <<Nnew[1], Prod(Tail(Nnew))>>), Nnew, 1)
    IN IF p <= 2 THEN <<h>>
       ELSE IF Prod(Nnew) # Prod(core.shape) THEN <<Bad("ShapeMismatch")>>
       ELSE <<TReshape(cores[1], <<core.shape[1], m, cores[1].shape[3]>>)>>
               \o SubSeq(cores, 2, p - 1)
               \o <<TReshape(cores[p], <<cores[p].shape[1], m, core.shape[3]>>)>>

RECURSIVE Flatten(_)
Flatten(ss) == IF Len(ss) = 0 THEN <<>> ELSE Head(ss) \o Flatten(Tail(ss))

\* shape_new of to_qtt for a TT-matrix, or the exception of its tests
QttPairs(A, m) ==
    IF \E k \in 1..Len(A.N) : A.N[k] # A.M[k] \/ A.N[k] # m ^ IntLog(A.N[k], m)
    THEN [err |-> "ShapeMismatch", pairs |-> <<>>]
    ELSE [err |-> "none",
          pairs |-> Flatten([k \in 1..Len(A.N) |->
                                [j \in 1..IntLog(A.N[k], m) |-> <<m, m>>]])]

\* the loop of reshape, run until it is left
RECURSIVE ReshapeLoop(_, _, _)
ReshapeLoop(A, shape, f) ==
    IF f.pc # "loop" THEN f
    ELSE ReshapeLoop(A, shape, IF A.is_ttm THEN ReshapeStepMatrix(A, shape, f)
                               ELSE ReshapeStepTensor(A, shape, f))

\* self.to_qtt(mode_size = m)
ToQtt(A, m) ==
    IF A.is_ttm
    THEN LET shape_new == QttPairs(A, m).pairs
         IN IF QttPairs(A, m).err # "none" THEN Raise(QttPairs(A, m).err)
            ELSE IF Prod(A.N) # Prod(ColsOf(shape_new))
                    \/ Prod(A.M) # Prod(RowsOf(shape_new))
            THEN Raise("ShapeMismatch")
            ELSE LET f == ReshapeLoop(A, shape_new, ReshapeEnter(A))
                 IN IF f.pc = "raise" THEN Raise(f.err) ELSE Return(f.cores_new)
    ELSE Collect(Flatten([k \in 1..Len(A.cores) |-> QttOfCore(A.h[k], A.cores[k], m)]))

TT_to_qtt(i, m) == Produce("to_qtt", <<i>>, m, ToQtt(Operand(i), m))

\* the loop of qtt_to_tens over the cores from core j: the cores are
\* multiplied together until the product of their modes is
\* original_shape[k]; core is <<>> for None
RECURSIVE FoldLoop(_, _, _, _, _, _, _)
FoldLoop(A, shape, j, core, so_far, k, acc) ==
    IF j > Len(A.cores)
    THEN IF k # Len(shape) THEN Raise("ShapeMismatch") ELSE Return(acc)
    ELSE LET c == IF core = <<>> THEN A.cores[j] ELSE Contract(core[1], A.cores[j])
             n == IF core = <<>> THEN A.cores[j].shape[2] ELSE so_far * A.cores[j].shape[2]
         IN IF k + 1 > Len(shape) THEN Raise("IndexError")
            ELSE IF n = shape[k + 1]
            THEN FoldLoop(A, shape, j + 1, <<>>, n, k + 1,
                          Append(acc, IF core = <<>> THEN A.h[j]
                                      ELSE TReshape(c, <<c.shape[1], n,
                                                         c.shape[Len(c.shape)]>>)))
            ELSE FoldLoop(A, shape, j + 1, <<c>>, n, k, acc)

\* self.qtt_to_tens(original_shape); is_list: original_shape is a list.  For
\* a TT-matrix the loop is passed over and TT([]) is returned.
QttToTens(A, shape, is_list) ==
    IF ~is_list THEN Raise("InvalidArguments")
    ELSE IF A.is_ttm THEN Return(<<>>)
    ELSE FoldLoop(A, shape, 1, <<>>, 1, 0, <<>>)

TT_qtt_to_tens(i, shape, is_list) ==
    ProduceAs([CallAt("qtt_to_tens", <<i>>, shape, 0, "none") EXCEPT
                  !.c = IF is_list THEN 1 ELSE 0],
              QttToTens(Operand(i), shape, is_list))

(***************************************************************************)
(* SpecQtt: q = x.to_qtt(m) followed by q.qtt_to_tens(x.N), or one call of *)
(* x.qtt_to_tens(shape).                                                   *)
(***************************************************************************)
QttKinds ==
    UNION {{Tensor(N, R) : R \in Ranked(Len(N))} :
              N \in { <<1>>, <<2>>, <<3>>, <<4>>, <<5>>, <<8>>, <<9>>, <<12>>, <<16>>,
                      <<2, 2>>, <<2, 4>>, <<8, 2>>, <<4, 8>>, <<1, 8>>, <<8, 1>>,
                      <<2, 3>>, <<12, 2>>, <<2, 2, 2>> }}
       \cup UNION {{Matrix(p[1], p[2], R) : R \in Ranked(Len(p[1]))} :
                      p \in { <<<<1>>, <<1>>>>, <<<<2>>, <<2>>>>, <<<<4>>, <<4>>>>,
                              <<<<4>>, <<2>>>>, <<<<3>>, <<3>>>>, <<<<2, 4>>, <<2, 4>>>>,
                              <<<<2, 1>>, <<2, 1>>>> }}

\* the values of mode_size
ModeSizes == {2, 3}

\* the original shapes given to qtt_to_tens
OriginalShapes == SeqsUpTo({1, 2, 4, 8}, 2)

InitQtt ==
    \E ka \in QttKinds, sa \in 1..NumSeeds : TwoOperands(ka, sa, ka, sa)

NextQtt ==
    \/ last = NoCall /\ \E m \in ModeSizes : TT_to_qtt(1, m)
    \/ last.op = "to_qtt" /\ last.res # 0 /\ TT_qtt_to_tens(last.res, objs[1].N, TRUE)
    \/ last = NoCall /\ \E shape \in OriginalShapes, is_list \in BOOLEAN :
                           TT_qtt_to_tens(1, shape, is_list)

SpecQtt == InitQtt /\ [][NextQtt]_vars

(***************************************************************************)
(* Claims about the constructor.                                           *)
(***************************************************************************)
LastDim(s) == s[Len(s)]

\* the list of cores the constructor of SpecCtor was called on
CtorArg == ShapesOfList(1)

AllOfNdim(sh, n) == \A i \in 1..Len(sh) : Len(sh[i]) = n

\* every core 3-D or every core 4-D, the ranks chained, 1 at both ends
WellFormed(sh) ==
    /\ AllOfNdim(sh, 3) \/ AllOfNdim(sh, 4)
    /\ \A i \in 2..Len(sh) : sh[i][1] = LastDim(sh[i - 1])
    /\ sh[1][1] = 1
    /\ LastDim(sh[Len(sh)]) = 1

\* the attributes of the object agree with the cores of shapes sh
Describes(o, sh) ==
    /\ Len(o.N) = Len(sh)
    /\ Len(o.R) = Len(o.N) + 1
    /\ o.R[1] = 1 /\ o.R[Len(o.R)] = 1
    /\ \A i \in 1..Len(sh) : sh[i][1] = o.R[i] /\ LastDim(sh[i]) = o.R[i + 1]
    /\ o.is_ttm = AllOfNdim(sh, 4)
    /\ IF o.is_ttm
       THEN /\ Len(o.M) = Len(o.N)
            /\ \A i \in 1..Len(sh) : o.M[i] = sh[i][2] /\ o.N[i] = sh[i][3]
       ELSE \A i \in 1..Len(sh) : o.N[i] = sh[i][2]

\* C1: TT(cores) on a non-empty list succeeds exactly when the cores are all
\* 3-D or all 4-D, their ranks chain and the outer ranks are 1; the object
\* then carries R with len(R) = len(N)+1, R[0] = R[-1] = 1, the ranks and the
\* mode sizes read from the cores, and is_ttm is true iff the cores are 4-D.
C1_ConstructorContract ==
    (last.op = "TT" /\ Len(CtorArg) > 0) =>
        /\ (last.err = "none") <=> WellFormed(CtorArg)
        /\ last.err = "none" =>
              /\ last.res \in 1..Len(objs)
              /\ Describes(objs[last.res], CtorArg)
        /\ last.err # "none" => last.res = 0 /\ objs = <<>>

\* a TT-matrix of two cores with an inner rank of 2 was constructed
C1_Witness ==
    /\ last.op = "TT" /\ last.err = "none"
    /\ objs[last.res].is_ttm
    /\ objs[last.res].R = <<1, 2, 1>>
    /\ objs[last.res].M = <<1, 2>> /\ objs[last.res].N = <<2, 1>>

\* the first core, in list order, that the loop of the constructor rejects
Offends(sh, i) ==
    \/ Len(sh[i]) \notin {3, 4}
    \/ i > 1 /\ sh[i][1] # LastDim(sh[i - 1])

FirstOffender(sh) ==
    IF \E i \in 1..Len(sh) : Offends(sh, i)
    THEN CHOOSE i \in 1..Len(sh) :
            Offends(sh, i) /\ \A j \in 1..(i - 1) : ~Offends(sh, j)
    ELSE 0

\* the leading dimension of core i differs from the trailing one of core i-1
LeadingDiffers(sh, i) ==
    i > 1 /\ (Len(sh[i]) = 0 \/ sh[i][1] # LastDim(sh[i - 1]))

\* C2: the cores are validated in list order, the leading dimension first:
\* RankMismatch for a leading dimension that differs from the previous
\* trailing one, InvalidArguments for a core neither 3-D nor 4-D, for a mix
\* of 3-D and 4-D cores and for outer ranks other than 1; no object is
\* produced then, and no other error kind is raised for any list of cores.
C2_ErrorKinds ==
    last.op = "TT" =>
        /\ last.err \in {"none", "RankMismatch", "InvalidArguments"}
        /\ last.err # "none" => last.res = 0 /\ objs = <<>>
        /\ LET k == FirstOffender(CtorArg) IN
           /\ (k # 0 /\ LeadingDiffers(CtorArg, k)) => last.err = "RankMismatch"
           /\ (k # 0 /\ ~LeadingDiffers(CtorArg, k)) => last.err = "InvalidArguments"
           /\ (k = 0 /\ Len(CtorArg) > 0 /\ ~WellFormed(CtorArg))
                 => last.err = "InvalidArguments"

\* C3: the empty tensor, however obtained, has len(R) = len(N)+1 and
\* R[0] = R[-1] = 1 like every other TT object.
C3_SentinelInvariants ==
    last.op \in {"TT(None)", "emptyTT", "emptyTTM", "ones([])"} =>
        LET o == objs[last.res] IN
        /\ Len(o.N) = 0
        /\ Len(o.R) = Len(o.N) + 1
        /\ o.R[1] = 1 /\ o.R[Len(o.R)] = 1


(***************************************************************************)
(* Claims about addition and subtraction.                                  *)
(***************************************************************************)
\* the two operands are of the same kind with the same mode sizes
SameModes(A, B) ==
    /\ A.is_ttm = B.is_ttm
    /\ A.N = B.N
    /\ A.is_ttm => A.M = B.M

\* C5: + and - of two TT objects of the same kind whose mode sizes differ
\* signal ShapeMismatch and return nothing; a mode of size 1 is never
\* broadcast against a larger one.
C5_ShapeMismatch ==
    (/\ last.op \in {"add", "sub"}
     /\ objs[1].is_ttm = objs[2].is_ttm
     /\ ~SameModes(objs[1], objs[2]))
        => last.err = "ShapeMismatch" /\ last.res = 0

\* where an index of a result core falls: 0 in both summands (an outer rank
\* of 1), 1 in the block of the first operand, 2 in the block of the second
Side(x, rA, outer) == IF outer THEN 0 ELSE IF x <= rA THEN 1 ELSE 2

\* the index of the second operand's core that idx of the result core reads
Shifted(idx, rA, rA1, k, d) ==
    [j \in 1..Len(idx) |->
        IF j = 1 /\ k # 1 THEN idx[j] - rA
        ELSE IF j = Len(idx) /\ k # d THEN idx[j] - rA1
        ELSE idx[j]]

\* core k of a sum, entry by entry: block-diagonal inside, side by side at
\* the two ends, the plain sum for a single core; b is the second operand's
\* core (stretched over the modes when it is a scalar's 1 x 1 x 1 core)
BlockEntry(a, b, rA, rA1, k, d, idx) ==
    LET lead == Side(idx[1], rA, k = 1)
        trail == Side(idx[Len(idx)], rA1, k = d)
        fromB == BroadcastAt(b, Len(idx), Shifted(idx, rA, rA1, k, d))
    IN IF lead = 0 /\ trail = 0 THEN TAt(a, idx) + fromB
       ELSE IF lead # 2 /\ trail # 2 THEN TAt(a, idx)
       ELSE IF lead # 1 /\ trail # 1 THEN fromB
       ELSE 0

IsBlockSum(core, a, b, rA, rA1, rB, rB1, k, d) ==
    /\ core.shape[1] = (IF k = 1 THEN 1 ELSE rA + rB)
    /\ core.shape[Len(core.shape)] = (IF k = d THEN 1 ELSE rA1 + rB1)
    /\ SubSeq(core.shape, 2, Len(core.shape) - 1) = SubSeq(a.shape, 2, Len(a.shape) - 1)
    /\ \A p \in 1..Len(core.data) :
          core.data[p] = BlockEntry(a, b, rA, rA1, k, d, Unflat(core.shape, p))

\* the ranks of a sum: 1 at both ends, the sum of the ranks in between
RanksAdd(RC, RA, RB, d) ==
    /\ Len(RC) = d + 1
    /\ RC[1] = 1 /\ RC[d + 1] = 1
    /\ \A k \in 2..d : RC[k] = RA[k] + RB[k]

\* the second operand of the last call as the cores that are summed in
SignedCore(core, neg, k) == IF neg /\ k = 1 THEN TNeg(core) ELSE core

AddLaw(A, B, C, neg) ==
    LET d == Len(A.cores) IN
    /\ RanksAdd(C.R, A.R, B.R, d)
    /\ Len(C.cores) = d
    /\ \A k \in 1..d :
          IsBlockSum(C.cores[k], A.cores[k], SignedCore(B.cores[k], neg, k),
                     A.R[k], A.R[k + 1], B.R[k], B.R[k + 1], k, d)

ScalarAddLaw(A, c, C) ==
    LET d == Len(A.cores) IN
    /\ RanksAdd(C.R, A.R, [k \in 1..(d + 1) |-> 1], d)
    /\ Len(C.cores) = d
    /\ \A k \in 1..d :
          IsBlockSum(C.cores[k], A.cores[k], TFull(<<1, 1, 1>>, IF k = 1 THEN c ELSE 1),
                     A.R[k], A.R[k + 1], 1, 1, k, d)

\* C8: for operands of the same kind and equal mode sizes A+B and A-B have
\* ranks 1 at the ends and A.R[i]+B.R[i] in between, the cores of A in the
\* leading blocks and those of B (its first core negated by -) in the
\* trailing blocks, block-diagonal inside and side by side at the ends; a
\* scalar raises every inner rank by 1; single cores are added directly.
C8_AdditionRankLaw ==
    /\ (last.op \in {"add", "sub"} /\ SameModes(objs[1], objs[2])) =>
          /\ last.err = "none"
          /\ AddLaw(View(1), View(2), View(last.res), last.op = "sub")
    /\ last.op \in {"add_scalar", "radd", "sub_scalar"} =>
          /\ last.err = "none"
          /\ ScalarAddLaw(View(1), IF last.op = "sub_scalar" THEN 0 - last.c ELSE last.c,
                          View(last.res))

\* two tensors of three cores with inner ranks 2 were added: inner ranks 4
C8_Witness ==
    /\ last.op = "add" /\ last.err = "none"
    /\ objs[1].R = <<1, 2, 2, 1>> /\ objs[2].R = <<1, 2, 2, 1>>
    /\ objs[last.res].R = <<1, 4, 4, 1>>
    /\ View(1).cores[2] # View(2).cores[2]

\* x = a*u + b*v entry by entry, u and v of the same shape
IsCombination(x, a, u, b, v) ==
    /\ x.shape = u.shape /\ u.shape = v.shape
    /\ \A p \in 1..Len(x.data) : x.data[p] = a * u.data[p] + b * v.data[p]

\* x = a*u + c entry by entry
IsShifted(x, a, u, c) ==
    /\ x.shape = u.shape
    /\ \A p \in 1..Len(x.data) : x.data[p] = a * u.data[p] + c

\* C9: the additive operators compute the elementwise result on the full
\* tensors: full(A+B) = full(A)+full(B), full(A-B) = full(A)-full(B),
\* full(A+c) = full(c+A) = full(A)+c, full(A-c) = full(A)-c,
\* full(c-A) = c-full(A), full(-A) = -full(A).
C9_AdditiveValues ==
    /\ (last.op \in {"add", "sub"} /\ SameModes(objs[1], objs[2])) =>
          /\ last.err = "none"
          /\ IsCombination(full(View(last.res)), 1, full(View(1)),
                           IF last.op = "sub" THEN -1 ELSE 1, full(View(2)))
    /\ last.op \in {"add_scalar", "radd"} =>
          /\ last.err = "none"
          /\ IsShifted(full(View(last.res)), 1, full(View(1)), last.c)
    /\ last.op = "sub_scalar" =>
          /\ last.err = "none"
          /\ IsShifted(full(View(last.res)), 1, full(View(1)), 0 - last.c)
    /\ last.op = "rsub" =>
          /\ last.err = "none"
          /\ IsShifted(full(View(last.res)), -1, full(View(1)), last.c)
    /\ last.op = "neg" =>
          /\ last.err = "none"
          /\ IsShifted(full(View(last.res)), -1, full(View(1)), 0)

\* two different TT-matrices of three cores were subtracted
C9_Witness ==
    /\ last.op = "sub" /\ last.err = "none"
    /\ objs[1].is_ttm /\ Len(objs[1].N) = 3
    /\ full(View(1)) # full(View(2))
    /\ \E p \in 1..Len(full(View(last.res)).data) : full(View(last.res)).data[p] # 0

(***************************************************************************)
(* Claims about chains of operators.                                       *)
(***************************************************************************)
\* the ranks of A begin and end with 1, are one more than the modes, and are
\* the leading and trailing dimensions of the cores
RanksFit(A) ==
    /\ Len(A.R) = Len(A.N) + 1
    /\ Len(A.cores) = Len(A.N)
    /\ A.R[1] = 1
    /\ A.R[Len(A.R)] = 1
    /\ \A k \in 1..Len(A.cores) :
          /\ A.cores[k].shape[1] = A.R[k]
          /\ A.cores[k].shape[Len(A.cores[k].shape)] = A.R[k + 1]

\* C4: every TT returned by +, -, unary - and +, *, @, kron, t(), to_ttm(),
\* mprod, tuple slicing and sum(index) has R[0] = R[-1] = 1, one rank more
\* than modes, and cores whose leading and trailing dimensions are R[i] and
\* R[i+1]; also when the operators are applied to their own results.
C4_InvariantPreservation == \A i \in 3..Len(objs) : RanksFit(View(i))

\* an operator was applied to the result of another and returned a
\* TT-matrix with an inner rank above 1
C4_Witness ==
    /\ Len(objs) = 4
    /\ last.res = 4
    /\ 3 \in Range(last.args)
    /\ objs[4].is_ttm
    /\ \E k \in 1..Len(objs[4].R) : objs[4].R[k] > 1
    /\ RanksFit(View(4))

\* x = u * v entry by entry
IsProduct(x, u, v) ==
    /\ x.shape = u.shape /\ u.shape = v.shape
    /\ \A p \in 1..Len(x.data) : x.data[p] = u.data[p] * v.data[p]

\* C10: for TT operands A and B of the same kind and equal mode sizes A*B
\* has the mode sizes of A, the ranks A.R[i]*B.R[i] at every boundary, and
\* full(A*B) is the elementwise product of full(A) and full(B); A*c for an
\* int or float c has the ranks and mode sizes of A and full(A*c) =
\* c*full(A).
C10_HadamardLaw ==
    /\ (/\ last.op = "mul"
        /\ SameModes(objs[last.args[1]], objs[last.args[2]])) =>
          /\ last.err = "none"
          /\ objs[last.res].N = objs[last.args[1]].N
          /\ objs[last.res].M = objs[last.args[1]].M
          /\ objs[last.res].R =
                [k \in 1..Len(objs[last.args[1]].R) |->
                    objs[last.args[1]].R[k] * objs[last.args[2]].R[k]]
          /\ IsProduct(full(View(last.res)), full(View(last.args[1])),
                       full(View(last.args[2])))
    /\ last.op = "mul_scalar" =>
          /\ last.err = "none"
          /\ objs[last.res].N = objs[last.args[1]].N
          /\ objs[last.res].M = objs[last.args[1]].M
          /\ objs[last.res].R = objs[last.args[1]].R
          /\ IsShifted(full(View(last.res)), last.c, full(View(last.args[1])), 0)

(***************************************************************************)
(* Claims about what an operation leaves alone.                            *)
(***************************************************************************)
\* the object i shows after the step what it showed before
Untouched(i) == ViewIn(store', lists', objs'[i]) = View(i)

\* the calls of operations on TT objects other than reduce_dims
PublicOps ==
    {"add", "sub", "mul", "matmul", "kron", "add_scalar", "sub_scalar", "rsub",
     "mul_scalar", "truediv", "neg", "pos", "t", "to_ttm", "cpu", "sum",
     "getitem", "mprod"}

\* C6: every public operation other than reduce_dims() leaves its receiver
\* and its operands unchanged: N, M, R and the entries of every core of x
\* (and y) are after the call what they were before it; in particular x / c
\* does not change x.
C6_OperandsUnchanged ==
    [][last'.op \in PublicOps => \A i \in Range(last'.args) : Untouched(i)]_vars

\* C7: no core is shared between two TT objects: an in-place change made
\* through one object (reduce_dims(), or the in-place update of its first
\* core by x / c) never changes the core list or the values of another.
C7_NoSharedCores ==
    [][last'.op \in {"reduce_dims", "truediv"} =>
          \A i \in 1..Len(objs) : i \notin Range(last'.args) => Untouched(i)]_vars

(***************************************************************************)
(* Claims about reduce_dims and the shape attribute.                       *)
(***************************************************************************)
\* what TT(cores) computes from the list of cores the object o holds now
FromItsCores(o) == InitFromList(ShapesOfList(o.cores))

\* C18: reduce_dims() leaves in self the N, M and R that constructing a TT
\* from the rewritten list of cores computes: R[0] = R[-1] = 1, core i has
\* the leading dimension R[i] and the trailing dimension R[i+1], N[i] is the
\* mode size of core i, and for a TT-matrix M[i] is the size of axis 1 and
\* N[i] the size of axis 2 of core i.
C18_ReduceDimsInvariants ==
    (last.op = "reduce_dims" /\ last.err = "none") =>
        LET o == objs[last.args[1]] IN
        /\ FromItsCores(o).err = "none"
        /\ o.R = FromItsCores(o).R
        /\ o.N = FromItsCores(o).N
        /\ o.is_ttm = FromItsCores(o).is_ttm
        /\ o.is_ttm => o.M = FromItsCores(o).M

\* the shape attribute an object has to carry
HasShapeOfModes(o) == o.has_shape /\ o.shape = ShapeOf(o.is_ttm, o.M, o.N)

\* C19: every TT object with at least one core carries a shape attribute
\* equal to the projection of its N and M ([(M[i], N[i])] for a TT-matrix,
\* N for a tensor): after the constructor, every operator, cpu() and for
\* self after reduce_dims().
C19_ShapeAttribute ==
    \A i \in 1..Len(objs) : Len(objs[i].N) > 0 => HasShapeOfModes(objs[i])

(***************************************************************************)
(* Claims about scalar operands.                                           *)
(***************************************************************************)
ScalarOps == {"x + c", "c + x", "x - c", "c - x", "x * c"}

\* C20: for a TT x each of x + c, c + x, x - c, c - x and x * c returns a TT
\* when c is an int, a float or a torch tensor with exactly one element.
C20_ScalarOperands ==
    last.op \in ScalarOps => last.err = "none" /\ last.res \in 1..Len(objs)

(***************************************************************************)
(* Claims about slicing.                                                   *)
(***************************************************************************)
AllInts(index) == \A k \in 1..Len(index) : index[k].kind = "int"

\* the positions of an index that are slices
KeptModes(index) == SelectSeq(Ident(Len(index)), LAMBDA k : index[k].kind # "int")

\* t[index] for a dense t: the modes indexed by an int are removed, a slice
\* keeps the entries from its start to its stop
SubArray(t, index) ==
    TMake([j \in 1..Len(KeptModes(index)) |->
              SliceExtent(index[KeptModes(index)[j]], t.shape[KeptModes(index)[j]])],
          LAMBDA idx :
             TAt(t, [k \in 1..Len(index) |->
                        IF index[k].kind = "int" THEN index[k].lo + 1
                        ELSE SliceStart(index[k], t.shape[k])
                             + idx[PosOf(KeptModes(index), k)]]))

\* full(x) with one dimension for every mode of x
DenseOf(A) == TReshape(full(A), A.N)

\* C16: x[i1,...,id] with d ints is a bare scalar equal to the entry
\* full(x)[i1,...,id] of a TT-tensor x; with ints and ranges mixed x[index]
\* is a TT whose dense form is the sub-array full(x)[index], the fixed modes
\* removed.
C16_SliceValues ==
    (last.op = "getitem" /\ ~objs[last.args[1]].is_ttm) =>
        /\ last.err = "none"
        /\ AllInts(last.index) =>
              /\ last.res = 0
              /\ last.ret = SubArray(DenseOf(View(last.args[1])), last.index)
        /\ ~AllInts(last.index) =>
              /\ last.res \in 1..Len(objs)
              /\ full(View(last.res)) =
                    SubArray(DenseOf(View(last.args[1])), last.index)

\* C17: for a tuple index x[index] is a scalar tensor if all the indices are
\* ints, and a TT if at least one of them is a slice.
C17_SliceResultKind ==
    last.op = "getitem" =>
        /\ last.err = "none"
        /\ AllInts(last.index) => last.res = 0 /\ last.ret.shape = <<>>
        /\ ~AllInts(last.index) => last.res \in 1..Len(objs)

(***************************************************************************)
(* Claims about eye and the product @.                                     *)
(***************************************************************************)
\* the object i as it is after the step
ViewAfter(i) == ViewIn(store', lists', objs'[i])

AllOnes(R) == \A k \in 1..Len(R) : R[k] = 1

\* C13: eye(N) is a TT-matrix with M = N and all ranks 1, and for a
\* TT-tensor x with x.N = N the product eye(N) @ x has the mode sizes and
\* the ranks of x and full(eye(N) @ x) = full(x).
C13_IdentityContraction ==
    [][/\ last'.op = "eye" =>
             /\ last'.err = "none"
             /\ objs'[last'.res].is_ttm
             /\ objs'[last'.res].M = last'.index
             /\ objs'[last'.res].N = last'.index
             /\ Len(objs'[last'.res].R) = Len(last'.index) + 1
             /\ AllOnes(objs'[last'.res].R)
       /\ (/\ last.op = "eye"
           /\ last'.op = "matmul"
           /\ last'.args[1] = last.res
           /\ ~objs[last'.args[2]].is_ttm
           /\ objs[last'.args[2]].N = last.index) =>
             /\ last'.err = "none"
             /\ ~objs'[last'.res].is_ttm
             /\ objs'[last'.res].N = objs[last'.args[2]].N
             /\ objs'[last'.res].R = objs[last'.args[2]].R
             /\ full(ViewAfter(last'.res)) = full(View(last'.args[2]))]_vars

\* the core is an identity matrix between two ranks 1
IsIdentityCore(core) ==
    /\ Len(core.shape) = 4
    /\ core.shape[1] = 1 /\ core.shape[4] = 1 /\ core.shape[2] = core.shape[3]
    /\ \A p \in 1..Len(core.data) :
          core.data[p] = IF Unflat(core.shape, p)[2] = Unflat(core.shape, p)[3]
                         THEN 1 ELSE 0

\* eye(N) @ x was computed for an x of three cores with ranks above 1 and
\* entries that are not all 0
C13_Witness ==
    /\ last.op = "matmul" /\ last.err = "none"
    /\ \A k \in 1..Len(View(last.args[1]).cores) :
          IsIdentityCore(View(last.args[1]).cores[k])
    /\ ~objs[last.args[2]].is_ttm
    /\ objs[last.args[2]].R = <<1, 2, 2, 1>>
    /\ full(View(last.res)) = full(View(last.args[2]))
    /\ \E p \in 1..Len(full(View(last.res)).data) : full(View(last.res)).data[p] # 0

\* the object made by the call is a copy of the object i: the same
\* attributes and entries, in tensors of its own
IsCopyOf(r, i) ==
    /\ View(r) = View(i)
    /\ \A k \in 1..Len(lists[objs[r].cores]) : \A j \in 1..Len(lists[objs[i].cores]) :
          lists[objs[r].cores][k].st # lists[objs[i].cores][j].st

\* C11: for TT objects A and B of the same kind kron(A, B) and A ** B have
\* N = A.N + B.N (and M = A.M + B.M for TT-matrices) and R = A.R + B.R[1:];
\* kron(None, B) and kron(A, None) return a copy of the operand that is not
\* None; kron(None, None) raises InvalidArguments.
C11_KronShapeLaw ==
    /\ (/\ last.op = "kron"
        /\ objs[last.args[1]].is_ttm = objs[last.args[2]].is_ttm) =>
          /\ last.err = "none"
          /\ objs[last.res].is_ttm = objs[last.args[1]].is_ttm
          /\ objs[last.res].N = objs[last.args[1]].N \o objs[last.args[2]].N
          /\ objs[last.res].M = objs[last.args[1]].M \o objs[last.args[2]].M
          /\ objs[last.res].R = objs[last.args[1]].R \o Tail(objs[last.args[2]].R)
    /\ last.op \in {"kron_left_none", "kron_right_none"} =>
          last.err = "none" /\ IsCopyOf(last.res, last.args[1])
    /\ last.op = "kron_none_none" => last.err = "InvalidArguments"

RankProducts(RA, RB) == [k \in 1..Len(RA) |-> RA[k] * RB[k]]

\* C12: A @ x for a TT-matrix A and a TT-tensor x requires A.N = x.N and is
\* a TT-tensor with the mode sizes A.M; x @ A requires x.N = A.M and is a
\* TT-tensor with the mode sizes A.N; A @ B for two TT-matrices requires
\* A.N = B.M and is a TT-matrix with the rows A.M and the columns B.N; the
\* ranks of the result are the products of the ranks of the operands, a
\* requirement that is not met raises ShapeMismatch, and a product of two TT
\* objects that returns is a TT.
C12_ContractionShapes ==
    last.op = "matmul" =>
        LET A == objs[last.args[1]]
            B == objs[last.args[2]]
        IN /\ last.err = "none" => last.res \in 1..Len(objs)
           /\ (A.is_ttm /\ ~B.is_ttm) =>
                 IF A.N = B.N
                 THEN /\ last.err = "none"
                      /\ ~objs[last.res].is_ttm
                      /\ objs[last.res].N = A.M
                      /\ objs[last.res].R = RankProducts(A.R, B.R)
                 ELSE last.err = "ShapeMismatch"
           /\ (~A.is_ttm /\ B.is_ttm) =>
                 IF A.N = B.M
                 THEN /\ last.err = "none"
                      /\ ~objs[last.res].is_ttm
                      /\ objs[last.res].N = B.N
                      /\ objs[last.res].R = RankProducts(A.R, B.R)
                 ELSE last.err = "ShapeMismatch"
           /\ (A.is_ttm /\ B.is_ttm) =>
                 IF A.N = B.M
                 THEN /\ last.err = "none"
                      /\ objs[last.res].is_ttm
                      /\ objs[last.res].M = A.M
                      /\ objs[last.res].N = B.N
                      /\ objs[last.res].R = RankProducts(A.R, B.R)
                 ELSE last.err = "ShapeMismatch"

\* the operators that take two TT objects of the same kind
SameKindOps == {"add", "sub", "mul", "div", "kron"}

\* C14: +, -, *, / and kron of a TT-tensor and a TT-matrix, in either
\* order, raise IncompatibleTypes, and no object is made and no solver is
\* called before the exception.
C14_IncompatibleTypes ==
    [][(/\ last'.op \in SameKindOps
        /\ objs[last'.args[1]].is_ttm # objs[last'.args[2]].is_ttm) =>
          /\ last'.err = "IncompatibleTypes"
          /\ last'.index # <<"amen_divide">>
          /\ UNCHANGED <<store, lists, objs>>]_vars

\* x / y raised IncompatibleTypes for a TT-tensor x made by the chain and a
\* TT-matrix y
C14_Witness ==
    /\ last.op = "div" /\ last.err = "IncompatibleTypes"
    /\ last.args[1] > 2
    /\ ~objs[last.args[1]].is_ttm /\ objs[last.args[2]].is_ttm

\* what a call of t() does, and what two calls in a row do
TransposeStep ==
    /\ (last'.op = "t" /\ ~objs[last'.args[1]].is_ttm) =>
          last'.err = "InvalidArguments"
    /\ (last'.op = "t" /\ objs[last'.args[1]].is_ttm) =>
          /\ last'.err = "none"
          /\ objs'[last'.res].is_ttm
          /\ objs'[last'.res].M = objs[last'.args[1]].N
          /\ objs'[last'.res].N = objs[last'.args[1]].M
          /\ objs'[last'.res].R = objs[last'.args[1]].R
          /\ ViewAfter(last'.res).cores =
                [k \in 1..Len(View(last'.args[1]).cores) |->
                    TPermute(View(last'.args[1]).cores[k], <<1, 3, 2, 4>>)]
    /\ (/\ last.op = "t" /\ last.err = "none"
        /\ last'.op = "t" /\ last'.args[1] = last.res) =>
          /\ last'.err = "none"
          /\ ViewAfter(last'.res) = View(last.args[1])

\* C15: t() of a TT-tensor raises InvalidArguments; t() of a TT-matrix A is
\* a TT-matrix with M = A.N, N = A.M, R = A.R whose cores are the cores of A
\* with their two mode axes exchanged; A.t().t() has the M, N, R and the
\* entries of A.
C15_Transpose == [][TransposeStep]_vars

(***************************************************************************)
(* Claims about operands of unsupported type.                              *)
(***************************************************************************)
OtherOps == {"x + o", "x - o", "x * o", "x / o", "x @ o"}

\* C21: x + o, x - o, x * o and x / o with an o that is a str, a list or
\* None raise InvalidArguments, and so does x @ o for such an o and for a
\* TT-tensor x with a TT-tensor o.
C21_UnsupportedOperand ==
    /\ last.op \in OtherOps => last.err = "InvalidArguments"
    /\ (/\ last.op = "matmul"
        /\ ~objs[last.args[1]].is_ttm
        /\ ~objs[last.args[2]].is_ttm) => last.err = "InvalidArguments"

(***************************************************************************)
(* Claims about an index that is no tuple of the right length.             *)
(***************************************************************************)
IsSlice(e) == e.kind \in {"slice", "all"}

\* C22: on a TT-tensor of one mode x[k] is the k-th entry and x[a:b] is a TT
\* over the range; on a TT of more modes an int or a slice raises
\* InvalidArguments; a tuple of the wrong length raises InvalidArguments, a
\* tuple with an Ellipsis NotImplementedError, and an index of another kind
\* InvalidArguments.
C22_NonTupleIndexing ==
    /\ last.op = "getitem1" =>
          LET o == objs[last.args[1]]
              e == last.index[1]
          IN /\ (e.kind = "int" /\ ~o.is_ttm /\ Len(o.N) = 1 /\ e.lo < o.N[1]) =>
                   /\ last.err = "none"
                   /\ last.ret = [shape |-> <<>>,
                                  data |-> <<TAt(DenseOf(View(last.args[1])),
                                                 <<e.lo + 1>>)>>]
             /\ (IsSlice(e) /\ ~o.is_ttm /\ Len(o.N) = 1) =>
                   /\ last.err = "none"
                   /\ last.res \in 1..Len(objs)
                   /\ objs[last.res].N = <<SliceExtent(e, o.N[1])>>
             /\ ((e.kind = "int" \/ IsSlice(e)) /\ Len(o.N) > 1) =>
                   last.err = "InvalidArguments"
             /\ e.kind = "str" => last.err = "InvalidArguments"
    /\ last.op = "getitem" =>
          LET o == objs[last.args[1]]
              hasEllipsis == \E k \in 1..Len(last.index) : last.index[k] = EllipsisAt
          IN /\ hasEllipsis => last.err = "NotImplementedError"
             /\ (~hasEllipsis /\ Len(last.index) # Len(IndexedModes(o))) =>
                   last.err = "InvalidArguments"

(***************************************************************************)
(* Claims about mode reduction: x is object 1 after x.reduce_dims(), and   *)
(* object 2 shows what x was before the call.                              *)
(***************************************************************************)
NotOne(n) == n # 1

\* the row and the column mode of every core of a list
ModePairs(l) == [k \in 1..Len(l) |-> <<l[k].shape[2], l[k].shape[3]>>]

NotOnes(p) == p # <<1, 1>>

OrOne(kept, one) == IF kept = <<>> THEN <<one>> ELSE kept

\* C27: after reduce_dims() of a valid TT-tensor N holds the entries of the
\* former N that are not 1, in their order, and the entries of the tensor
\* are the former ones; with every mode of size 1 one core with N == [1]
\* holds the value; of a TT-matrix the cores with row and column mode both 1
\* are removed and no other.
C27_ModeReduction ==
    last.op = "reduce_dims" =>
       /\ last.err = "none"
       /\ ~objs[2].is_ttm =>
             /\ objs[1].N = OrOne(SelectSeq(objs[2].N, NotOne), 1)
             /\ Len(lists[objs[1].cores]) = Len(objs[1].N)
             /\ \A k \in 1..Len(objs[1].N) :
                   lists[objs[1].cores][k].shape[2] = objs[1].N[k]
             /\ full(View(1)).data = full(View(2)).data
       /\ objs[2].is_ttm =>
             ModePairs(lists[objs[1].cores])
                = OrOne(SelectSeq(ModePairs(lists[2]), NotOnes), <<1, 1>>)

C27_Witness ==
    /\ last.op = "reduce_dims"
    /\ ~objs[2].is_ttm
    /\ objs[2].N = <<1, 2, 1, 2>>
    /\ objs[1].N = <<2, 2>>
    /\ \E p \in 1..4 : full(View(1)).data[p] # 0

\* a witness for a TT-matrix that keeps a core with one mode of size 1
C27_MatrixWitness ==
    /\ last.op = "reduce_dims"
    /\ objs[2].is_ttm
    /\ ModePairs(lists[2]) = <<<<1, 2>>, <<1, 1>>>>
    /\ ModePairs(lists[objs[1].cores]) = <<<<1, 2>>>>

\* core i of the former x has modes of size 1 only
WasUnit(i) == IsUnitMode(objs[2].is_ttm, lists[2][i].shape)

\* a core left of core i was retained
HasRetainedLeft(i) == \E j \in 1..(i - 1) : ~WasUnit(j)

\* core i was multiplied into its right neighbour: the item i + 1 of the
\* list x had is a tensor made by the call
FoldedRight(i) == lists[1][i + 1].st # i + 1

\* the last core was multiplied into the last retained core, which is a
\* tensor made by the call
LastFoldedLeft ==
    LET new == lists[objs[1].cores]
    IN /\ Len(new) = Len(SelectSeq(Ident(Len(lists[2])), LAMBDA j : ~WasUnit(j)))
       /\ new[Len(new)].st > 2 * Len(lists[2])

\* the last core was kept: it is the only core of x
LastKept == lists[objs[1].cores] = <<lists[1][Len(lists[1])]>>

\* the rule for the cores before the last, with (a, b) the ranks beside
\* core i
FoldRule(i, a, b) ==
    /\ (HasRetainedLeft(i) /\ a > b) => ~FoldedRight(i)
    /\ (HasRetainedLeft(i) /\ a < b) => FoldedRight(i)
    /\ ~HasRetainedLeft(i) => FoldedRight(i)

LastRule ==
    WasUnit(Len(lists[2])) =>
        IF HasRetainedLeft(Len(lists[2])) THEN LastFoldedLeft ELSE LastKept

\* C28 as stated: a core of size-1 modes is folded left when R[i] > R[i+1]
\* and right when R[i] < R[i+1], with R the ranks of x; the last core is
\* folded left, a core with no retained core on its left is folded right, or
\* kept when it is the last.
C28_FoldByRanks ==
    last.op = "reduce_dims" =>
       /\ \A i \in 1..(Len(lists[2]) - 1) :
             WasUnit(i) => FoldRule(i, objs[2].R[i], objs[2].R[i + 1])
       /\ LastRule

\* C28 amended: the ranks compared are the leading and the trailing
\* dimension the core has when the sweep reaches it, after the cores folded
\* into it from the left; with equal dimensions it is folded right.
C28_FoldByDimensions ==
    last.op = "reduce_dims" =>
       /\ \A i \in 1..(Len(lists[2]) - 1) :
             WasUnit(i) =>
                /\ FoldRule(i, lists[1][i].shape[1],
                            lists[1][i].shape[Len(lists[1][i].shape)])
                /\ (lists[1][i].shape[1] = lists[1][i].shape[Len(lists[1][i].shape)])
                      => FoldedRight(i)
       /\ LastRule

\* a core folded left after its left neighbour was folded into it
C28_Witness ==
    /\ last.op = "reduce_dims"
    /\ objs[2].N = <<2, 1, 1, 2>>
    /\ objs[2].R = <<1, 2, 3, 1, 1>>
    /\ FoldedRight(2)
    /\ ~FoldedRight(3)
    /\ objs[1].R = <<1, 1, 1>>

(***************************************************************************)
(* Claims about the norm.                                                  *)
(***************************************************************************)
\* C30: norm() returns a value for every valid TT with at least one core,
\* a TT of a single core included.
C30_NormReturns ==
    last.op = "norm" => last.err = "none" /\ last.ret.shape = <<>>

(***************************************************************************)
(* Claims about reshape.                                                   *)
(***************************************************************************)
\* the call of reshape has ended
Reshaped == last.op = "reshape" /\ ~InLoop

\* the products of the modes of x and of the target differ
CountsDiffer(o, shape) ==
    IF o.is_ttm
    THEN Prod(o.N) # Prod(ColsOf(shape)) \/ Prod(o.M) # Prod(RowsOf(shape))
    ELSE Prod(o.N) # Prod(shape)

\* C23: reshape(x, shape) returns a TT with N == shape for a TT-tensor x and
\* a list with the product of x.N, and with M and N the rows and columns
\* asked for a TT-matrix x, modes of size 1 and splits of the row mode or
\* the column mode alone included; a list of another product raises
\* ShapeMismatch.
C23_RequestedShape ==
    Reshaped =>
       IF CountsDiffer(objs[1], last.index) THEN last.err = "ShapeMismatch"
       ELSE /\ last.err = "none"
            /\ last.res \in 1..Len(objs)
            /\ IF objs[1].is_ttm
               THEN /\ objs[last.res].M = RowsOf(last.index)
                    /\ objs[last.res].N = ColsOf(last.index)
               ELSE objs[last.res].N = last.index

\* C29: the loop of reshape reads no item past the end of the cores of x or
\* of the target shape, and every iteration moves the core index or the
\* shape index forward.
C29_LoopBounds ==
    /\ last.op = "reshape" => last.err # "IndexError"
    /\ InLoop => /\ last.ret.idx < Len(lists[objs[1].cores])
                 /\ last.ret.idx_shape < Len(last.index)

(***************************************************************************)
(* Claims about the QTT format.                                            *)
(***************************************************************************)
\* n is m, m^2, m^3, ...
IsPowerOf(n, m) == n > 1 /\ n = m ^ IntLog(n, m)

AllPowers(N, m) == \A k \in 1..Len(N) : IsPowerOf(N[k], m)

\* C24: to_qtt(mode_size = m) of a TT-tensor whose mode sizes are all
\* powers of m returns a TT whose modes all have size m, modes of size m^2
\* included.
C24_QttModes ==
    (last.op = "to_qtt" /\ ~objs[1].is_ttm /\ AllPowers(objs[1].N, last.c)) =>
       /\ last.err = "none"
       /\ last.res \in 1..Len(objs)
       /\ \A k \in 1..Len(objs[last.res].N) : objs[last.res].N[k] = last.c

\* C25: to_qtt(mode_size = m) raises ShapeMismatch and returns nothing when
\* a mode size is no power of m (1 is taken as a power), or for a TT-matrix
\* when N[i] # M[i] for some i.
C25_QttShapeMismatch ==
    (/\ last.op = "to_qtt"
     /\ \/ \E k \in 1..Len(objs[1].N) :
              objs[1].N[k] # last.c ^ IntLog(objs[1].N[k], last.c)
        \/ objs[1].is_ttm /\ objs[1].N # objs[1].M) =>
       last.err = "ShapeMismatch" /\ last.res = 0

\* the list N can be cut in Len(shape) runs of cores whose products are the
\* entries of shape
RECURSIVE Groupable(_, _)
Groupable(N, shape) ==
    IF Len(shape) = 0 THEN Len(N) = 0
    ELSE \E j \in 1..Len(N) :
            /\ Prod(SubSeq(N, 1, j)) = shape[1]
            /\ Groupable(SubSeq(N, j + 1, Len(N)), Tail(shape))

\* C26: for a TT-tensor x that to_qtt() accepts, x.to_qtt().qtt_to_tens(x.N)
\* is a TT-tensor with N == x.N; qtt_to_tens raises InvalidArguments when
\* original_shape is no list, and ShapeMismatch when the cores cannot be
\* grouped to products equal to original_shape.
C26_QttRoundTrip ==
    last.op = "qtt_to_tens" =>
       LET x == objs[last.args[1]] IN
       /\ (last.args[1] = 3 /\ ~objs[1].is_ttm) =>
             /\ last.err = "none"
             /\ last.res \in 1..Len(objs)
             /\ ~objs[last.res].is_ttm
             /\ objs[last.res].N = objs[1].N
       /\ last.c = 0 => last.err = "InvalidArguments"
       /\ (last.c = 1 /\ ~x.is_ttm /\ ~Groupable(x.N, last.index)) =>
             last.err = "ShapeMismatch"

=============================================================================
